---- MODULE Spec2Model ----
(***************************************************************************)
(* Model of kinfer-kbot: the ModelRuntime control scheduler                *)
(* (src/src/runtime.rs), driven by main (src/src/bin/runtime.rs), with the *)
(* provider, actuator and keyboard code it calls.                          *)
(*                                                                         *)
(* f32 tensors are modelled as sequences of exact rationals <<n, d>>       *)
(* (d > 0, lowest terms); every value the model draws is exactly           *)
(* representable, so the arithmetic below is the code's arithmetic.        *)
(***************************************************************************)
EXTENDS Integers, Sequences, FiniteSets, TLC

\* ------------------------------------------------------------------ bounds
NumJoints == 2
MaxTicks == 2
MaxCommands == 3
MaxKeys == 3
MaxStarts == 2
MaxSteps == 3

\* --------------------------------------------------------------- constants
TRIGGER_READ_BEFORE == 2
CountdownSteps == 4
ImuMaxErrors == 100

\* First rows of the name/id table; the model drives the first NumJoints.
ACTUATOR_NAME_TO_ID ==
  << <<"dof_left_shoulder_pitch_03", 11>>,
     <<"dof_left_shoulder_roll_03", 12>>,
     <<"dof_left_shoulder_yaw_02", 13>>,
     <<"dof_left_elbow_02", 14>>,
     <<"dof_left_wrist_00", 15>>,
     <<"dof_right_shoulder_pitch_03", 21>>,
     <<"dof_right_shoulder_roll_03", 22>>,
     <<"dof_right_shoulder_yaw_02", 23>>,
     <<"dof_right_elbow_02", 24>>,
     <<"dof_right_wrist_00", 25>>,
     <<"dof_left_hip_pitch_04", 31>>,
     <<"dof_left_hip_roll_03", 32>>,
     <<"dof_left_hip_yaw_03", 33>>,
     <<"dof_left_knee_04", 34>>,
     <<"dof_left_ankle_02", 35>>,
     <<"dof_right_hip_pitch_04", 41>>,
     <<"dof_right_hip_roll_03", 42>>,
     <<"dof_right_hip_yaw_03", 43>>,
     <<"dof_right_knee_04", 44>>,
     <<"dof_right_ankle_02", 45>> >>

\* The actuator ids the startup read asks for (runtime.rs:110-113), in
\* table order, cut to the modelled joints.
actuator_ids == [k \in 1..NumJoints |-> ACTUATOR_NAME_TO_ID[k][2]]

\* ------------------------------------------------------------- f32 values
\* 0.0 / 0.0; every sum and product with it is NaN again.
NaN == <<0, 0>>

RECURSIVE Gcd(_, _)
Gcd(a, b) == IF b = 0 THEN a ELSE Gcd(b, a % b)

Abs(x) == IF x < 0 THEN -x ELSE x

Rat(n, d) ==
  LET s == IF d < 0 THEN -1 ELSE 1
      g == Gcd(Abs(n), Abs(d))
  IN  IF g = 0 THEN NaN ELSE <<(s * n) \div g, (s * d) \div g>>

RAdd(a, b) == Rat(a[1] * b[2] + b[1] * a[2], a[2] * b[2])
RSub(a, b) == Rat(a[1] * b[2] - b[1] * a[2], a[2] * b[2])
RMul(a, b) == Rat(a[1] * b[1], a[2] * b[2])

Zero == Rat(0, 1)
One == Rat(1, 1)
Half == Rat(1, 2)

\* tensor * scalar
Scale(v, r) == [k \in 1..Len(v) |-> RMul(v[k], r)]

\* f32::to_degrees and f32::to_radians (actuators.rs:147, 322), with pi
\* taken as 355/113.
Pi == Rat(355, 113)
ToDegrees(x) == RMul(x, Rat(180 * Pi[2], Pi[1]))
ToRadians(x) == RMul(x, Rat(Pi[1], 180 * Pi[2]))

\* tensor + tensor with ndarray broadcasting of 1-d shapes.  The result is
\* the set of outcomes a build can produce: equal shapes add element-wise;
\* a length-1 right operand is broadcast to the left shape; a length-1 left
\* operand is broadcast to the right shape by ndarray >= 0.15 and panics
\* before; any other mismatch panics.
\* An outcome is <<"ok", tensor>> or <<"panic">>.
TensorAdd(a, b) ==
  IF Len(a) = Len(b) THEN {<<"ok", [k \in 1..Len(a) |-> RAdd(a[k], b[k])]>>}
  ELSE IF Len(b) = 1 THEN {<<"ok", [k \in 1..Len(a) |-> RAdd(a[k], b[1])]>>}
  ELSE IF Len(a) = 1
    THEN {<<"ok", [k \in 1..Len(b) |-> RAdd(a[1], b[k])]>>, <<"panic">>}
  ELSE {<<"panic">>}

\* Mutant: the interpolation parameter counted from 0.
InterpTFromZero(i, n) == Rat(i - 1, n)

\* runtime.rs:166-169: the command of sub-step i.
InterpT(i, n) == Rat(i, n)

Interpolate(prev, target, i, n) ==
  TensorAdd(Scale(prev, RSub(One, InterpT(i, n))), Scale(target, InterpT(i, n)))

Throttle(interp, m) == Scale(interp, m)

\* ------------------------------------------------------------ input sets
\* Command-line values main may pass on (bin/runtime.rs:18-35).
ArgDts == {TRIGGER_READ_BEFORE, 20}
ArgSlowdowns == {1, 4}
ArgMagnitudes == {Half, One}

\* Tensors the policy may return and positions (degrees) the bus may
\* report: a constant tensor and one that differs from joint to joint.
Ramp == [k \in 1..NumJoints |-> Rat(k, 1)]
PolicyOutputs == {[k \in 1..NumJoints |-> Zero], Ramp}
BusPositions == {[k \in 1..NumJoints |-> One], Ramp}

\* -------------------------------------------------------- keyboard statics
\* f32::to_bits and f32::from_bits (keyboard.rs:22-29, 35) on the values the
\* listener writes: each value with its IEEE-754 single pattern, written as
\* <<high 16 bits, low 16 bits>>.
F32Table ==
  << <<Zero, <<0, 0>> >>,
     <<Rat(1, 10), <<15820, 52429>> >>,
     <<Rat(-1, 10), <<48588, 52429>> >>,
     <<Rat(1, 5), <<15948, 52429>> >>,
     <<Rat(-1, 5), <<48716, 52429>> >>,
     <<Rat(6, 1), <<16576, 0>> >>,
     <<Rat(7, 1), <<16608, 0>> >>,
     <<Rat(8, 1), <<16640, 0>> >>,
     <<Rat(9, 1), <<16656, 0>> >> >>

F32Values == {F32Table[k][1] : k \in 1..Len(F32Table)}
to_bits(value) ==
  F32Table[CHOOSE k \in 1..Len(F32Table) : F32Table[k][1] = value][2]
from_bits(bits) ==
  F32Table[CHOOSE k \in 1..Len(F32Table) : F32Table[k][2] = bits][1]

\* keyboard.rs:9-16: the command statics, in declaration order.
StaticNames ==
  <<"COMMAND_X", "COMMAND_Y", "COMMAND_YAW_RATE", "COMMAND_YAW",
    "COMMAND_HEIGHT", "COMMAND_PITCH", "COMMAND_ROLL", "KEYFRAME_INDEX">>

\* Mutant: the keyframe static starts at keyframe 6.
StaticsInitKeyframe ==
  [n \in {StaticNames[k] : k \in 1..8} |->
     IF n = "KEYFRAME_INDEX" THEN to_bits(Rat(6, 1)) ELSE <<0, 0>>]

\* keyboard.rs:9-16: every static is AtomicU32::new(0).
StaticsInit == [n \in {StaticNames[k] : k \in 1..8} |-> <<0, 0>>]

\* keyboard.rs:22-29: the static get_commands loads into each position.
GetOrder ==
  <<"COMMAND_X", "COMMAND_Y", "COMMAND_YAW_RATE", "COMMAND_YAW",
    "COMMAND_HEIGHT", "COMMAND_ROLL", "COMMAND_PITCH", "KEYFRAME_INDEX">>

\* Mutant: index k stores to the k-th static in declaration order.
SetCommandDeclOrder(cmd, index, value) ==
  IF index \in 0..7
    THEN [cmd EXCEPT ![StaticNames[index + 1]] = to_bits(value)]
    ELSE cmd

\* keyboard.rs:33-47: the statics after set_command(index, value).
set_command(cmd, index, value) ==
  CASE index = 0 -> [cmd EXCEPT !.COMMAND_X = to_bits(value)]
    [] index = 1 -> [cmd EXCEPT !.COMMAND_Y = to_bits(value)]
    [] index = 2 -> [cmd EXCEPT !.COMMAND_YAW_RATE = to_bits(value)]
    [] index = 3 -> [cmd EXCEPT !.COMMAND_YAW = to_bits(value)]
    [] index = 4 -> [cmd EXCEPT !.COMMAND_HEIGHT = to_bits(value)]
    [] index = 5 -> [cmd EXCEPT !.COMMAND_ROLL = to_bits(value)]
    [] index = 6 -> [cmd EXCEPT !.COMMAND_PITCH = to_bits(value)]
    [] index = 7 -> [cmd EXCEPT !.KEYFRAME_INDEX = to_bits(value)]
    [] OTHER -> cmd

\* keyboard.rs:20-31 when no store falls between its eight loads.
get_commands(cmd) == [k \in 1..8 |-> from_bits(cmd[GetOrder[k]])]

\* No get_commands call is running.
GcIdle == [pc |-> "idle", k |-> 0, out |-> <<>>, dirty |-> {}, snaps |-> {}]

\* The vectors of vs that agree with the loaded prefix out.
Agreeing(vs, out) == {v \in vs : \A k \in 1..Len(out) : v[k] = out[k]}

\* The statics at process start; written is the history of the last value
\* stored to each index, pending the stores the listener still has to make
\* for the key it is handling, keys the events handled so far, cleaned
\* whether cleanup_keyboard has returned since the listener was started,
\* before the vector as it was when the key being handled arrived; gc.snaps
\* are the vectors there were between key events while get_commands ran,
\* those that differ from what get_commands has loaded so far left out.
TeleopInit ==
  [cmd |-> StaticsInit, written |-> [i \in 0..7 |-> Zero], pending |-> <<>>,
   gc |-> GcIdle, keys |-> 0, cleaned |-> FALSE, before |-> <<>>]

\* No IMU and no provider construction.

\* ------------------------------------------------------------------ state
VARIABLES
  main_pc,             \* position of main (bin/runtime.rs)
  dt,                  \* ModelRuntime.dt, ms
  slowdown_factor,     \* ModelRuntime.slowdown_factor
  magnitude_factor,    \* ModelRuntime.magnitude_factor
  keyboard_enabled,    \* ModelRuntime.keyboard_enabled
  running,             \* ModelRuntime.running (shared AtomicBool)
  runtime,             \* ModelRuntime.runtime: "None" or "Some"
  shut,                \* the spawned task's Runtime has been shut down
  handle,              \* the spawned task's JoinHandle: "none", "dropped"
  task,                \* the spawned task: position and locals
  KEYBOARD_RUNNING,    \* keyboard.rs static
  SHUTDOWN_REQUESTED,  \* keyboard.rs static
  listener,            \* the keyboard thread: "none", "reading", "ended"
  issued,              \* carries the policy runner has handed out so far
  ticks,               \* policy calls started (bounded by MaxTicks)
  trace,               \* history: the task's events, in order
  sent,                \* history: the command batches dispatched
  calls,               \* history: the calls of init and step, with the
                       \* carry passed, the carry and the tensor returned
  stop_at,             \* history: Len(trace) when stop() stored the flag
  live,                \* history: the bus feedback at the startup read
  gi,                  \* the running get_inputs call of the provider
  fb,                  \* the feedback the supervisor holds, per actuator id
  bus,                 \* history: the operations handed to bus and IMU
  ret,                 \* the result of the last provider call
  teleop,              \* keyboard.rs command statics and their readers
  imu,                 \* imu.rs: the stored sample and its background reader
  ctor,                \* the running KBotProvider::new
  api                  \* the tasks spawned by the calls of start()

vars ==
  <<main_pc, dt, slowdown_factor, magnitude_factor, keyboard_enabled, running,
    runtime, shut, handle, task, KEYBOARD_RUNNING, SHUTDOWN_REQUESTED,
    listener, issued, ticks, trace, sent, calls, stop_at, live, gi, fb, bus,
    ret, teleop, imu, ctor, api>>

provVars == <<gi, fb, bus, ret>>
devVars == <<teleop, imu, ctor, api>>
rtFields == <<dt, slowdown_factor, magnitude_factor, keyboard_enabled>>
kbVars == <<KEYBOARD_RUNNING, SHUTDOWN_REQUESTED, listener>>
histVars == <<ticks, trace, sent, calls, stop_at, live>>

\* Carries are tokens 1, 2, ... in the order the policy runner hands them
\* out; NoCarry stands for a moved-out or not yet initialised carry.
NoCarry == 0

\* The task before runtime.spawn.
NoTask ==
  [pc |-> "unspawned", slowdown_factor |-> 0, magnitude_factor |-> Zero,
   keyboard_enabled |-> FALSE, count |-> 0, carry |-> NoCarry,
   joint_positions |-> <<>>, output |-> <<>>, i |-> 0, inflight |-> 0]

\* No get_inputs call is running.
GiIdle ==
  [pc |-> "idle", input_types |-> <<>>, joint_names |-> <<>>,
   num_commands |-> <<"None">>, act |-> "new", imu |-> "new",
   actuator_ids |-> <<>>, act_state |-> <<>>, imu_values |-> <<>>, k |-> 0,
   out |-> <<>>]

\* No provider call has returned yet.
NoRet == [fn |-> "none", args |-> <<>>, value |-> <<"None">>, log |-> <<>>]

\* main is about to call ModelRuntime::new (bin/runtime.rs:69); the fields
\* of the runtime hold nothing yet and the statics of keyboard.rs hold their
\* initialisers.
InitRuntime ==
  /\ main_pc = "new"
  /\ dt = 0
  /\ slowdown_factor = 0
  /\ magnitude_factor = Zero
  /\ keyboard_enabled = FALSE
  /\ running = FALSE
  /\ runtime = "None"
  /\ shut = FALSE
  /\ handle = "none"
  /\ task = NoTask
  /\ KEYBOARD_RUNNING = FALSE
  /\ SHUTDOWN_REQUESTED = FALSE
  /\ listener = "none"
  /\ issued = 0
  /\ ticks = 0
  /\ trace = <<>>
  /\ sent = <<>>
  /\ calls = <<>>
  /\ stop_at = 0
  /\ live = <<>>
  /\ teleop = TeleopInit
  /\ imu = [pc |-> "none"]
  /\ ctor = [pc |-> "none"]
  /\ api = <<>>

\* The provider is idle while Spec follows main and the control task.
Init ==
  /\ InitRuntime
  /\ gi = GiIdle
  /\ fb = <<>>
  /\ bus = <<>>
  /\ ret = NoRet

\* The process runs until main returns or panics.
ProcessAlive == main_pc \notin {"exited", "panicked"}

RLe(a, b) == a[1] * b[2] <= b[1] * a[2]

\* ------------------------------------------------------------------- main
\* runtime.rs:32-50, called at bin/runtime.rs:69-74: the constructor asserts
\* dt > TRIGGER_READ_BEFORE and stores the defaults.
New(d, kb) ==
  /\ main_pc = "new"
  /\ IF d > TRIGGER_READ_BEFORE
       THEN /\ dt' = d
            /\ slowdown_factor' = 1
            /\ magnitude_factor' = One
            /\ keyboard_enabled' = kb
            /\ main_pc' = "set_slowdown_factor"
       ELSE /\ main_pc' = "panicked"
            /\ UNCHANGED rtFields
  /\ UNCHANGED <<running, runtime, shut, handle, task, kbVars, issued,
                 histVars>>
  /\ UNCHANGED <<provVars, devVars>>

\* Mutant: the setter stores the factor without its assertion.
SetSlowdownFactorUnchecked(n) ==
  /\ main_pc = "set_slowdown_factor"
  /\ slowdown_factor' = n
  /\ main_pc' = "set_magnitude_factor"
  /\ UNCHANGED <<dt, magnitude_factor, keyboard_enabled, running, runtime,
                 shut, handle, task, kbVars, issued, histVars>>
  /\ UNCHANGED <<provVars, devVars>>

\* runtime.rs:52-55, called at bin/runtime.rs:75.
SetSlowdownFactor(n) ==
  /\ main_pc = "set_slowdown_factor"
  /\ IF n >= 1
       THEN /\ slowdown_factor' = n
            /\ main_pc' = "set_magnitude_factor"
       ELSE /\ main_pc' = "panicked"
            /\ UNCHANGED slowdown_factor
  /\ UNCHANGED <<dt, magnitude_factor, keyboard_enabled, running, runtime,
                 shut, handle, task, kbVars, issued, histVars>>
  /\ UNCHANGED <<provVars, devVars>>

\* runtime.rs:57-61, called at bin/runtime.rs:76.
SetMagnitudeFactor(m) ==
  /\ main_pc = "set_magnitude_factor"
  /\ IF RLe(Zero, m) /\ RLe(m, One)
       THEN /\ magnitude_factor' = m
            /\ main_pc' = "start"
       ELSE /\ main_pc' = "panicked"
            /\ UNCHANGED magnitude_factor
  /\ UNCHANGED <<dt, slowdown_factor, keyboard_enabled, running, runtime,
                 shut, handle, task, kbVars, issued, histVars>>
  /\ UNCHANGED <<provVars, devVars>>

\* runtime.rs:63-196, called at bin/runtime.rs:78.  Runtime::new may fail,
\* and main returns that error; otherwise the task is spawned with copies
\* of the configuration and its JoinHandle is dropped.
Start(runtime_ok) ==
  /\ main_pc = "start"
  /\ IF running
       THEN /\ main_pc' = "select"
            /\ UNCHANGED <<running, runtime, handle, task>>
       ELSE IF ~runtime_ok
         THEN /\ main_pc' = "exited"
              /\ UNCHANGED <<running, runtime, handle, task>>
         ELSE /\ running' = TRUE
              /\ task' = [NoTask EXCEPT
                            !.pc = "read_home",
                            !.slowdown_factor = slowdown_factor,
                            !.magnitude_factor = magnitude_factor,
                            !.keyboard_enabled = keyboard_enabled]
              /\ handle' = "dropped"
              /\ runtime' = "Some"
              /\ main_pc' = "select"
  /\ UNCHANGED <<rtFields, shut, kbVars, issued, histVars>>
  /\ UNCHANGED <<provVars, devVars>>

\* bin/runtime.rs:81-84: Ctrl-C ends the select.
CtrlC ==
  /\ main_pc = "select"
  /\ main_pc' = "stop"
  /\ UNCHANGED <<rtFields, running, runtime, shut, handle, task, kbVars,
                 issued, histVars>>
  /\ UNCHANGED <<provVars, devVars>>

\* Mutant: the poll leaves its loop while the flag is clear.
ShutdownPollInverted ==
  /\ main_pc = "select"
  /\ keyboard_enabled
  /\ ~SHUTDOWN_REQUESTED
  /\ main_pc' = "stop"
  /\ UNCHANGED <<rtFields, running, runtime, shut, handle, task, kbVars,
                 issued, histVars>>
  /\ UNCHANGED <<provVars, devVars>>

\* bin/runtime.rs:85-91: the keyboard shutdown poll ends the select.
ShutdownPoll ==
  /\ main_pc = "select"
  /\ keyboard_enabled
  /\ SHUTDOWN_REQUESTED
  /\ main_pc' = "stop"
  /\ UNCHANGED <<rtFields, running, runtime, shut, handle, task, kbVars,
                 issued, histVars>>
  /\ UNCHANGED <<provVars, devVars>>

\* runtime.rs:198-204, called at bin/runtime.rs:101.
Stop ==
  /\ main_pc = "stop"
  /\ running' = FALSE
  /\ IF runtime = "Some"
       THEN runtime' = "None" /\ shut' = TRUE
       ELSE UNCHANGED <<runtime, shut>>
  /\ stop_at' = Len(trace)
  /\ main_pc' = "cleanup"
  /\ UNCHANGED <<rtFields, handle, task, kbVars, issued, ticks, trace, sent,
                 calls, live>>
  /\ UNCHANGED <<provVars, devVars>>

\* keyboard.rs:161-164, called at bin/runtime.rs:103-109; then main returns.
CleanupAndExit ==
  /\ main_pc = "cleanup"
  /\ KEYBOARD_RUNNING' = IF keyboard_enabled THEN FALSE ELSE KEYBOARD_RUNNING
  /\ main_pc' = "exited"
  /\ UNCHANGED <<rtFields, running, runtime, shut, handle, task,
                 SHUTDOWN_REQUESTED, listener, issued, histVars>>
  /\ UNCHANGED <<provVars, devVars>>

\* -------------------------------------------------------- keyboard thread
\* keyboard.rs:68-79: the listener, blocked in event::read since its last
\* test of KEYBOARD_RUNNING, reads an ESC press.
ListenerEsc ==
  /\ ProcessAlive
  /\ listener = "reading"
  /\ SHUTDOWN_REQUESTED' = TRUE
  /\ KEYBOARD_RUNNING' = FALSE
  /\ listener' = "ended"
  /\ UNCHANGED <<main_pc, rtFields, running, runtime, shut, handle, task,
                 issued, histVars>>
  /\ UNCHANGED <<provVars, devVars>>

\* ------------------------------------------------- the spawned task: startup
\* What every step of the task leaves alone.
TaskFrame ==
  UNCHANGED <<main_pc, rtFields, running, runtime, shut, handle, provVars,
              devVars>>

\* The .await points of the task.  After shutdown_background the task is
\* dropped at the next .await that yields; sleep always yields.
AwaitPcs ==
  {"homing", "countdown", "init", "get_state", "step", "dispatching",
   "trigger", "sleep"}

\* runtime.rs:202: the task is dropped at an .await after the shutdown.
Cancel ==
  /\ ProcessAlive
  /\ shut
  /\ task.pc \in AwaitPcs
  /\ task' = [task EXCEPT !.pc = "cancelled", !.inflight = 0]
  /\ trace' = Append(trace, "cancelled")
  /\ TaskFrame
  /\ UNCHANGED <<kbVars, issued, ticks, sent, calls, stop_at, live>>

\* runtime.rs:82-84: the blocking read of the homing prompt; unwrap panics
\* when stdin fails.
ReadHome(ok) ==
  /\ ProcessAlive
  /\ task.pc = "read_home"
  /\ task' = [task EXCEPT !.pc = IF ok THEN "move_to_home" ELSE "panicked"]
  /\ trace' = Append(trace, IF ok THEN "read_home" ELSE "panic")
  /\ TaskFrame
  /\ UNCHANGED <<kbVars, issued, ticks, sent, calls, stop_at, live>>

\* Mutant: the homing batch is sent off without being awaited.
MoveToHomeIssueDetached ==
  /\ ProcessAlive
  /\ task.pc = "move_to_home"
  /\ task' = [task EXCEPT !.pc = "read_start", !.inflight = @ + 1]
  /\ trace' = Append(trace, "move_to_home")
  /\ TaskFrame
  /\ UNCHANGED <<kbVars, issued, ticks, sent, calls, stop_at, live>>

\* runtime.rs:86 with provider.rs:137-139: the homing batch is handed to
\* command_actuators and the task waits for it; inflight counts the
\* batches handed over and not yet returned or dropped.
MoveToHomeIssue ==
  /\ ProcessAlive
  /\ task.pc = "move_to_home"
  /\ task' = [task EXCEPT !.pc = "homing", !.inflight = @ + 1]
  /\ TaskFrame
  /\ UNCHANGED <<kbVars, issued, histVars>>

\* Mutant: the countdown starts without the operator's confirmation.
MoveToHomeNoConfirm ==
  /\ ProcessAlive
  /\ task.pc = "homing"
  /\ task' = [task EXCEPT !.pc = "keyboard", !.inflight = @ - 1]
  /\ trace' = Append(trace, "move_to_home")
  /\ TaskFrame
  /\ UNCHANGED <<kbVars, issued, ticks, sent, calls, stop_at, live>>

\* runtime.rs:86 with provider.rs:124-143: one batch to HOME_POSITION;
\* command_actuators absorbs every per-actuator failure and returns Ok.
MoveToHome ==
  /\ ProcessAlive
  /\ task.pc = "homing"
  /\ task' = [task EXCEPT !.pc = "read_start", !.inflight = @ - 1]
  /\ trace' = Append(trace, "move_to_home")
  /\ TaskFrame
  /\ UNCHANGED <<kbVars, issued, ticks, sent, calls, stop_at, live>>

\* runtime.rs:89-90: the blocking read of the confirmation prompt.
ReadStart(ok) ==
  /\ ProcessAlive
  /\ task.pc = "read_start"
  /\ task' = [task EXCEPT !.pc = IF ok THEN "keyboard" ELSE "panicked"]
  /\ trace' = Append(trace, IF ok THEN "read_start" ELSE "panic")
  /\ TaskFrame
  /\ UNCHANGED <<kbVars, issued, ticks, sent, calls, stop_at, live>>

\* runtime.rs:93-96 with keyboard.rs:59-62.
StartKeyboard ==
  /\ ProcessAlive
  /\ task.pc = "keyboard"
  /\ IF task.keyboard_enabled
       THEN /\ KEYBOARD_RUNNING' = TRUE
            /\ listener' = "reading"
            /\ trace' = Append(trace, "start_keyboard_listener_now")
       ELSE UNCHANGED <<KEYBOARD_RUNNING, listener, trace>>
  /\ task' = [task EXCEPT !.pc = "countdown", !.count = 1]
  /\ TaskFrame
  /\ UNCHANGED <<SHUTDOWN_REQUESTED, issued, ticks, sent, calls, stop_at,
                 live>>

\* runtime.rs:98-101: one iteration of the countdown, a 1 s sleep.
Countdown ==
  /\ ProcessAlive
  /\ task.pc = "countdown"
  /\ ~shut
  /\ task' = [task EXCEPT
                !.count = @ + 1,
                !.pc = IF task.count = CountdownSteps THEN "init" ELSE @]
  /\ trace' = Append(trace, "countdown")
  /\ TaskFrame
  /\ UNCHANGED <<kbVars, issued, ticks, sent, calls, stop_at, live>>

\* runtime.rs:103-106: model_runner.init().
InitCarry(ok) ==
  /\ ProcessAlive
  /\ task.pc = "init"
  /\ IF ok
       THEN /\ task' = [task EXCEPT !.pc = "get_state", !.carry = issued + 1]
            /\ issued' = issued + 1
            /\ calls' = Append(calls,
                 [call |-> "init", in |-> NoCarry, out |-> issued + 1,
                  output |-> <<>>])
            /\ trace' = Append(trace, "init")
       ELSE /\ task' = [task EXCEPT !.pc = "err"]
            /\ trace' = Append(trace, "init_err")
            /\ UNCHANGED <<issued, calls>>
  /\ TaskFrame
  /\ UNCHANGED <<kbVars, ticks, sent, stop_at, live>>

\* Option<f64> values.
Some(x) == <<"Some", x>>
None == <<"None">>

\* actuators.rs:313-330: one state per requested id that has feedback, in
\* request order; an id without feedback gets no entry.
get_actuators_state(ids, feedback) ==
  LET RECURSIVE Collect(_)
      Collect(k) ==
        IF k > Len(ids) THEN <<>>
        ELSE (IF ids[k] \in DOMAIN feedback
                THEN <<[actuator_id |-> ids[k],
                        position |-> Some(ToDegrees(feedback[ids[k]].angle)),
                        velocity |->
                          Some(ToDegrees(feedback[ids[k]].velocity))]>>
                ELSE <<>>) \o Collect(k + 1)
  IN  Collect(1)

\* Option::unwrap_or (runtime.rs:118).
UnwrapOr(opt, default) == IF opt[1] = "None" THEN default ELSE opt[2]

\* runtime.rs:116-119: the positions of the returned states, in order.
JointAngles(actuator_states) ==
  [k \in 1..Len(actuator_states) |-> UnwrapOr(actuator_states[k].position, Zero)]

\* runtime.rs:109-124: the initial baseline.  The bus holds feedback for
\* the ids in avail, with the positions p.
GetState(avail, p) ==
  /\ ProcessAlive
  /\ task.pc = "get_state"
  /\ LET feedback ==
           [id \in avail |->
              [angle |-> p[CHOOSE k \in 1..NumJoints : actuator_ids[k] = id],
               velocity |-> Zero]]
     IN  /\ task' = [task EXCEPT
                       !.pc = "timer",
                       !.joint_positions =
                          JointAngles(get_actuators_state(actuator_ids, feedback))]
         /\ live' = feedback
  /\ trace' = Append(trace, "get_state")
  /\ TaskFrame
  /\ UNCHANGED <<kbVars, issued, ticks, sent, calls, stop_at>>

\* runtime.rs:127-138: TimerFd::new (unwrap), set and the first wait.
TimerSetup(outcome) ==
  /\ ProcessAlive
  /\ task.pc = "timer"
  /\ task' = [task EXCEPT
                !.pc = CASE outcome = "ok" -> "while"
                         [] outcome = "panic" -> "panicked"
                         [] OTHER -> "err"]
  /\ trace' = Append(trace, CASE outcome = "ok" -> "timer"
                              [] outcome = "panic" -> "panic"
                              [] OTHER -> "timer_err")
  /\ TaskFrame
  /\ UNCHANGED <<kbVars, issued, ticks, sent, calls, stop_at, live>>

\* ----------------------------------------------- the spawned task: main loop
\* runtime.rs:141: the stop-flag check before a tick; runtime.rs:190-191
\* when it fails.
While ==
  /\ ProcessAlive
  /\ task.pc = "while"
  /\ task' = [task EXCEPT !.pc = IF running THEN "step" ELSE "ok"]
  /\ trace' = Append(trace, IF running THEN "while_true" ELSE "while_false")
  /\ TaskFrame
  /\ UNCHANGED <<kbVars, issued, ticks, sent, calls, stop_at, live>>

\* Mutant: every step is given the carry that init returned.
StepCarryStale == calls[1].out

\* The carry the task hands to model_runner.step (runtime.rs:152).
StepCarry == task.carry

\* Mutant: a failed policy step is tried again.
StepRetry(ok, out) ==
  /\ ProcessAlive
  /\ task.pc = "step"
  /\ ticks < MaxTicks
  /\ ticks' = ticks + 1
  /\ IF ok
       THEN /\ task' = [task EXCEPT
                          !.pc = "for", !.output = out,
                          !.carry = issued + 1, !.i = 1]
            /\ issued' = issued + 1
            /\ calls' = Append(calls,
                 [call |-> "step", in |-> task.carry, out |-> issued + 1,
                  output |-> out])
            /\ trace' = Append(trace, "step")
       ELSE /\ task' = task
            /\ calls' = calls
            /\ trace' = Append(trace, "step_err")
            /\ UNCHANGED issued
  /\ TaskFrame
  /\ UNCHANGED <<kbVars, sent, stop_at, live>>

\* runtime.rs:151-155: the policy step; the carry moves into step and the
\* returned carry replaces it.
Step(ok, out) ==
  /\ ProcessAlive
  /\ task.pc = "step"
  /\ ticks < MaxTicks
  /\ ticks' = ticks + 1
  /\ IF ok
       THEN /\ task' = [task EXCEPT
                          !.pc = "for", !.output = out,
                          !.carry = issued + 1, !.i = 1]
            /\ issued' = issued + 1
            /\ calls' = Append(calls,
                 [call |-> "step", in |-> StepCarry, out |-> issued + 1,
                  output |-> out])
            /\ trace' = Append(trace, "step")
       ELSE /\ task' = [task EXCEPT !.pc = "err", !.carry = NoCarry]
            /\ calls' = Append(calls,
                 [call |-> "step", in |-> StepCarry, out |-> NoCarry,
                  output |-> <<>>])
            /\ trace' = Append(trace, "step_err")
            /\ UNCHANGED issued
  /\ TaskFrame
  /\ UNCHANGED <<kbVars, sent, stop_at, live>>

\* Mutant: the sub-step does not look at the stop flag.
SubStepAlways == TRUE

\* runtime.rs:163: the stop-flag check of a sub-step.
SubStepRunning == running

\* runtime.rs:162-165: the range test and the stop-flag check of a sub-step.
For ==
  /\ ProcessAlive
  /\ task.pc = "for"
  /\ IF task.i >= task.slowdown_factor + 1
       THEN /\ task' = [task EXCEPT !.pc = "end_tick"]
            /\ trace' = Append(trace, "for_end")
       ELSE IF ~SubStepRunning
         THEN /\ task' = [task EXCEPT !.pc = "end_tick"]
              /\ trace' = Append(trace, "for_break")
         ELSE /\ task' = [task EXCEPT !.pc = "take_action"]
              /\ trace' = Append(trace, "for_true")
  /\ TaskFrame
  /\ UNCHANGED <<kbVars, issued, ticks, sent, calls, stop_at, live>>

\* runtime.rs:166-169: the commands sub-step i may dispatch ("panic" when
\* the shapes do not broadcast).
Commands(prev, target, i, n, m) ==
  {IF r[1] = "panic" THEN r ELSE <<"ok", Throttle(r[2], m)>> :
     r \in Interpolate(prev, target, i, n)}

\* The sub-step batch whose values cannot be computed or do not match the
\* policy joints (the task panics before anything is sent).
NoBatch(cmds) == cmds[1] = "panic" \/ Len(cmds[2]) # NumJoints

\* runtime.rs:168-170 with provider.rs:262-265: the sub-step batch is
\* handed to command_actuators and the task waits for it.
TakeActionIssue ==
  /\ ProcessAlive
  /\ task.pc = "take_action"
  /\ \E r \in Commands(task.joint_positions, task.output, task.i,
                        task.slowdown_factor, task.magnitude_factor) :
       ~NoBatch(r)
  /\ task' = [task EXCEPT !.pc = "dispatching", !.inflight = @ + 1]
  /\ TaskFrame
  /\ UNCHANGED <<kbVars, issued, histVars>>

\* runtime.rs:166-171 with provider.rs:225-267: interpolate, throttle and
\* dispatch; take_action asserts one value per policy joint.
TakeAction(ok) ==
  /\ ProcessAlive
  /\ task.pc \in {"take_action", "dispatching"}
  /\ \E r \in Commands(task.joint_positions, task.output, task.i,
                        task.slowdown_factor, task.magnitude_factor) :
       IF NoBatch(r)
         THEN /\ task.pc = "take_action"
              /\ task' = [task EXCEPT !.pc = "panicked"]
              /\ trace' = Append(trace, "panic")
              /\ UNCHANGED sent
         ELSE IF ok
           THEN /\ task.pc = "dispatching"
                /\ task' = [task EXCEPT !.pc = "timer_wait",
                                        !.inflight = @ - 1]
                /\ sent' = Append(sent,
                     [tick |-> ticks, i |-> task.i,
                      prev |-> task.joint_positions, target |-> task.output,
                      cmd |-> r[2]])
                /\ trace' = Append(trace, "take_action")
           ELSE /\ task.pc = "dispatching"
                /\ task' = [task EXCEPT !.pc = "err", !.inflight = @ - 1]
                /\ trace' = Append(trace, "take_action_err")
                /\ UNCHANGED sent
  /\ TaskFrame
  /\ UNCHANGED <<kbVars, issued, ticks, calls, stop_at, live>>

\* Mutant: the feedback read is not triggered after the timer tick.
TimerWaitNoTrigger(ok) ==
  /\ ProcessAlive
  /\ task.pc = "timer_wait"
  /\ task' = [task EXCEPT !.pc = IF ok THEN "sleep" ELSE "err"]
  /\ trace' = Append(trace, IF ok THEN "timer_wait" ELSE "timer_wait_err")
  /\ TaskFrame
  /\ UNCHANGED <<kbVars, issued, ticks, sent, calls, stop_at, live>>

\* runtime.rs:176-178: the blocking wait for the next timer tick.
TimerWait(ok) ==
  /\ ProcessAlive
  /\ task.pc = "timer_wait"
  /\ task' = [task EXCEPT !.pc = IF ok THEN "trigger" ELSE "err"]
  /\ trace' = Append(trace, IF ok THEN "timer_wait" ELSE "timer_wait_err")
  /\ TaskFrame
  /\ UNCHANGED <<kbVars, issued, ticks, sent, calls, stop_at, live>>

\* runtime.rs:179 with provider.rs:109-122.
TriggerActuatorRead(ok) ==
  /\ ProcessAlive
  /\ task.pc = "trigger"
  /\ task' = [task EXCEPT !.pc = IF ok THEN "sleep" ELSE "err"]
  /\ trace' = Append(trace, IF ok THEN "trigger" ELSE "trigger_err")
  /\ TaskFrame
  /\ UNCHANGED <<kbVars, issued, ticks, sent, calls, stop_at, live>>

\* runtime.rs:180: the bus-latency sleep, then the next sub-step.
Sleep ==
  /\ ProcessAlive
  /\ task.pc = "sleep"
  /\ ~shut
  /\ task' = [task EXCEPT !.pc = "for", !.i = @ + 1]
  /\ trace' = Append(trace, "sleep")
  /\ TaskFrame
  /\ UNCHANGED <<kbVars, issued, ticks, sent, calls, stop_at, live>>

\* Mutant: the throttled command becomes the baseline.
NextBaselineThrottled == Scale(task.output, task.magnitude_factor)

\* runtime.rs:183: the baseline of the next tick.
NextBaseline == task.output

EndTick ==
  /\ ProcessAlive
  /\ task.pc = "end_tick"
  /\ task' = [task EXCEPT !.pc = "while", !.joint_positions = NextBaseline]
  /\ trace' = Append(trace, "end_tick")
  /\ TaskFrame
  /\ UNCHANGED <<kbVars, issued, ticks, sent, calls, stop_at, live>>

\* ------------------------------------------------------------ specification
Next ==
  \/ \E d \in ArgDts : \E kb \in BOOLEAN : New(d, kb)
  \/ \E n \in ArgSlowdowns \cup {0} : SetSlowdownFactor(n)
  \/ \E m \in ArgMagnitudes \cup {Rat(3, 2)} : SetMagnitudeFactor(m)
  \/ \E runtime_ok \in BOOLEAN : Start(runtime_ok)
  \/ CtrlC
  \/ ShutdownPoll
  \/ Stop
  \/ CleanupAndExit
  \/ ListenerEsc
  \/ Cancel
  \/ \E ok \in BOOLEAN : ReadHome(ok)
  \/ MoveToHomeIssue
  \/ MoveToHome
  \/ \E ok \in BOOLEAN : ReadStart(ok)
  \/ StartKeyboard
  \/ Countdown
  \/ \E ok \in BOOLEAN : InitCarry(ok)
  \/ \E avail \in SUBSET {actuator_ids[k] : k \in 1..NumJoints} :
       \E p \in BusPositions : GetState(avail, p)
  \/ \E outcome \in {"ok", "panic", "err"} : TimerSetup(outcome)
  \/ While
  \/ \E ok \in BOOLEAN : \E out \in PolicyOutputs : Step(ok, out)
  \/ For
  \/ TakeActionIssue
  \/ \E ok \in BOOLEAN : TakeAction(ok)
  \/ \E ok \in BOOLEAN : TimerWait(ok)
  \/ \E ok \in BOOLEAN : TriggerActuatorRead(ok)
  \/ Sleep
  \/ EndTick

Spec == Init /\ [][Next]_vars

\* The main task runs on its own runtime: the 100 ms poll of the shutdown
\* flag (bin/runtime.rs:88-90) comes round again and again, and stop() and
\* the cleanup are straight-line code after the select.
SpecFair ==
  /\ Spec
  /\ WF_vars(ShutdownPoll)
  /\ WF_vars(Stop)
  /\ WF_vars(CleanupAndExit)

\* ================================================================ provider
\* Result values.
Ok(x) == <<"Ok", x>>
Err(e) == <<"Err", e>>

Min(S) == CHOOSE x \in S : \A y \in S : x <= y

\* Mutant: a name the table does not hold resolves to id 0.
FindIdOrDefault(name) ==
  LET hits == {k \in 1..Len(ACTUATOR_NAME_TO_ID) :
                 ACTUATOR_NAME_TO_ID[k][1] = name}
  IN  IF hits = {} THEN Some(0) ELSE Some(ACTUATOR_NAME_TO_ID[Min(hits)][2])

\* provider.rs:85-88 and 239-242: the id of the first table row with the
\* name, if any.
FindId(name) ==
  LET hits == {k \in 1..Len(ACTUATOR_NAME_TO_ID) :
                 ACTUATOR_NAME_TO_ID[k][1] = name}
  IN  IF hits = {} THEN None ELSE Some(ACTUATOR_NAME_TO_ID[Min(hits)][2])

\* provider.rs:81-92: all ids, or the error of the first unknown name.
get_actuator_ids(joint_names) ==
  LET found == [k \in 1..Len(joint_names) |-> FindId(joint_names[k])]
      bad == {k \in 1..Len(joint_names) : found[k][1] = "None"}
  IN  IF bad # {} THEN Err("Joint name not found")
      ELSE Ok([k \in 1..Len(joint_names) |-> found[k][2]])

\* Array::from_shape_vec((n,), v).
from_shape_vec(n, v) == IF Len(v) = n THEN Ok(v) ELSE Err("ShapeError")

\* Mutant: the angles that are there are returned, a missing one as zero.
GetJointAnglesLenient(joint_names, actuator_state) ==
  Ok([k \in 1..Len(actuator_state) |->
        UnwrapOr(actuator_state[k].position, Zero)])

\* provider.rs:272-299.
get_joint_angles_from_state(joint_names, actuator_state) ==
  IF \E k \in 1..Len(actuator_state) : actuator_state[k].position[1] = "None"
    THEN Err("Position not available")
    ELSE from_shape_vec(Len(joint_names),
           [k \in 1..Len(actuator_state) |-> actuator_state[k].position[2]])

\* provider.rs:301-336.
get_joint_angular_velocities_from_state(joint_names, actuator_state) ==
  IF \E k \in 1..Len(actuator_state) : actuator_state[k].velocity[1] = "None"
    THEN Err("Velocity data not available")
    ELSE from_shape_vec(Len(joint_names),
           [k \in 1..Len(actuator_state) |-> actuator_state[k].velocity[2]])

\* Quaternion::rotate_vector(v, inverse) for q = <<w, x, y, z>>:
\* v + 2w(u x v) + 2u x (u x v), u the vector part (negated for inverse).
rotate_vector(q, v, inverse) ==
  LET Cross(a, b) ==
        << RSub(RMul(a[2], b[3]), RMul(a[3], b[2])),
           RSub(RMul(a[3], b[1]), RMul(a[1], b[3])),
           RSub(RMul(a[1], b[2]), RMul(a[2], b[1])) >>
      VAdd(a, b) == [k \in 1..3 |-> RAdd(a[k], b[k])]
      sgn == IF inverse THEN Rat(-1, 1) ELSE One
      u == <<RMul(sgn, q[2]), RMul(sgn, q[3]), RMul(sgn, q[4])>>
      t == Scale(Cross(u, v), Rat(2, 1))
  IN  VAdd(VAdd(v, Scale(t, q[1])), Cross(u, t))

\* Mutant: gravity is taken to point up.
GetProjectedGravityUp(imu_values) ==
  from_shape_vec(3,
    rotate_vector(imu_values.quat, <<Zero, Zero, Rat(981, 100)>>, TRUE))

\* provider.rs:338-364.
get_projected_gravity_from_values(imu_values) ==
  from_shape_vec(3,
    rotate_vector(imu_values.quat, <<Zero, Zero, Rat(-981, 100)>>, TRUE))

\* provider.rs:366-382.
get_accelerometer_from_values(imu_values) ==
  from_shape_vec(3, imu_values.accel)

\* provider.rs:384-397.
get_gyroscope_from_values(imu_values) == from_shape_vec(3, imu_values.gyro)

\* provider.rs:399-412.
get_quat_from_values(imu_values) == from_shape_vec(4, imu_values.quat)

\* Mutant: width 6 takes the first six scalars, yaw rate included.
GetCommandInternalFirstSix(num_commands, commands) ==
  LET n == UnwrapOr(num_commands, 0)
  IN  CASE n \in {3, 6, 7} -> from_shape_vec(n, [i \in 1..n |-> commands[i]])
        [] OTHER -> from_shape_vec(n, [i \in 1..n |-> Zero])

\* Mutant: width 8 is served from the teleop vector like width 7.
GetCommandInternalEight(num_commands, commands) ==
  LET n == UnwrapOr(num_commands, 0)
  IN  CASE n = 3 -> from_shape_vec(n, <<commands[1], commands[2], commands[3]>>)
        [] n = 6 -> from_shape_vec(n,
                      <<commands[1], commands[2], commands[4], commands[5],
                        commands[6], commands[7]>>)
        [] n \in {7, 8} -> from_shape_vec(n, [i \in 1..n |-> commands[i]])
        [] OTHER -> from_shape_vec(n, [i \in 1..n |-> Zero])

\* provider.rs:414-470; commands is what keyboard::get_commands returns.
get_command_internal(num_commands, commands) ==
  LET n == UnwrapOr(num_commands, 0)
  IN  CASE n = 3 -> from_shape_vec(n, <<commands[1], commands[2], commands[3]>>)
        [] n = 6 -> from_shape_vec(n,
                      <<commands[1], commands[2], commands[4], commands[5],
                        commands[6], commands[7]>>)
        [] n = 7 -> from_shape_vec(n, [i \in 1..7 |-> commands[i]])
        [] OTHER -> from_shape_vec(n, [i \in 1..n |-> Zero])

\* KBotProvider.initial_heading, fixed at construction (provider.rs:41).
initial_heading == Half

\* provider.rs:173-219: one requested slot.  secs is the elapsed time and
\* commands the teleop vector at that moment.
DeriveField(t, g, secs, commands) ==
  CASE t = "JointAngles" ->
         get_joint_angles_from_state(g.joint_names, g.act_state)
    [] t = "JointAngularVelocities" ->
         get_joint_angular_velocities_from_state(g.joint_names, g.act_state)
    [] t = "Accelerometer" -> get_accelerometer_from_values(g.imu_values)
    [] t = "InitialHeading" -> from_shape_vec(1, <<initial_heading>>)
    [] t = "Quaternion" -> get_quat_from_values(g.imu_values)
    [] t = "Gyroscope" -> get_gyroscope_from_values(g.imu_values)
    [] t = "ProjectedGravity" ->
         get_projected_gravity_from_values(g.imu_values)
    [] t = "Time" -> from_shape_vec(1, <<secs>>)
    [] t = "Command" -> get_command_internal(g.num_commands, commands)
    [] OTHER -> Err("Carry should come via step()")

\* ------------------------------------------------------ provider: inputs
coreVars ==
  <<main_pc, rtFields, running, runtime, shut, handle, task, kbVars, issued,
    histVars>>
rtVars == <<coreVars, devVars>>

\* meta.joint_names of the policy: the modelled joints, the same with the
\* last name unknown to the table, and only unknown names.
UnknownName == "dof_unknown"
JointNames == [k \in 1..NumJoints |-> ACTUATOR_NAME_TO_ID[k][1]]
MetaJointNames ==
  {JointNames, [JointNames EXCEPT ![NumJoints] = UnknownName],
   [k \in 1..NumJoints |-> UnknownName]}

\* The input_types a policy may declare.
InputRequests ==
  { <<>>,
    <<"JointAngles">>,
    <<"JointAngles", "JointAngles">>,
    <<"Accelerometer", "JointAngularVelocities">>,
    <<"Time", "Carry">>,
    <<"JointAngles", "JointAngularVelocities", "Accelerometer",
      "InitialHeading", "Quaternion", "Gyroscope", "ProjectedGravity", "Time",
      "Command">> }

\* meta.num_commands.
NumCommands == {None, Some(3), Some(6), Some(7), Some(8)}

\* IMU samples: upright, and turned half a turn about x.
ImuSamples ==
  { [accel |-> <<Zero, Zero, Rat(981, 100)>>, gyro |-> <<Zero, Zero, Zero>>,
     quat |-> <<One, Zero, Zero, Zero>>],
    [accel |-> <<Zero, Zero, Rat(-981, 100)>>, gyro |-> <<Half, Zero, Zero>>,
     quat |-> <<Zero, One, Zero, Zero>>] }

\* What keyboard::get_commands may return.
TeleopVectors == {[i \in 1..8 |-> Zero], [i \in 1..8 |-> Rat(i, 1)]}

\* Feedback the supervisor may hold for the modelled joints: joint k at
\* angle k rad, any subset of them reporting.
ProvFeedbacks ==
  {[id \in A |->
      [angle |-> Rat(CHOOSE k \in 1..NumJoints : actuator_ids[k] = id, 1),
       velocity |-> Half]] :
    A \in SUBSET {actuator_ids[k] : k \in 1..NumJoints}}

\* A provider exists and no call on it is running.
InitProvider ==
  /\ InitRuntime
  /\ gi = GiIdle
  /\ fb \in ProvFeedbacks
  /\ bus = <<>>
  /\ ret = NoRet

ProviderIdle == gi.pc = "idle" /\ ret.fn = "none"

\* A call has returned: its arguments, its value and the warnings and
\* errors it logged (the constructor adds its warnings).
Returned(fn, args, value) ==
  [fn |-> fn, args |-> args, value |-> value, log |-> <<>>]

GiArgs == [input_types |-> gi.input_types, joint_names |-> gi.joint_names]

\* provider.rs:148-156: get_inputs is entered.
get_inputs(input_types, joint_names, num_commands) ==
  /\ ProviderIdle
  /\ gi' = [GiIdle EXCEPT !.pc = "join", !.input_types = input_types,
                          !.joint_names = joint_names,
                          !.num_commands = num_commands]
  /\ UNCHANGED <<fb, bus, ret, rtVars>>

\* provider.rs:159-162, first poll: the names are resolved and the batch
\* read is issued.
GiActuatorStart ==
  /\ gi.pc = "join"
  /\ gi.act = "new"
  /\ LET r == get_actuator_ids(gi.joint_names)
     IN  IF r[1] = "Err"
           THEN /\ gi' = [gi EXCEPT !.act = "err"]
                /\ UNCHANGED bus
           ELSE /\ gi' = [gi EXCEPT !.act = "reading", !.actuator_ids = r[2]]
                /\ bus' = Append(bus, [op |-> "get_actuators_state",
                                       ids |-> r[2]])
  /\ UNCHANGED <<fb, ret, rtVars>>

\* provider.rs:94-107 with actuators.rs:313-330: the batch read completes.
GiActuatorDone ==
  /\ gi.pc = "join"
  /\ gi.act = "reading"
  /\ gi' = [gi EXCEPT !.act = "ok",
                      !.act_state = get_actuators_state(gi.actuator_ids, fb)]
  /\ UNCHANGED <<fb, bus, ret, rtVars>>

\* provider.rs:163-167: try_join polls the IMU branch after the actuator
\* branch, and not at all once that branch has failed.
GiImuStart ==
  /\ gi.pc = "join"
  /\ gi.imu = "new"
  /\ gi.act \in {"reading", "ok"}
  /\ gi' = [gi EXCEPT !.imu = "reading"]
  /\ bus' = Append(bus, [op |-> "imu.get_values"])
  /\ UNCHANGED <<fb, ret, rtVars>>

\* provider.rs:164-166: the IMU read completes with a sample or an error.
GiImuDone(ok, sample) ==
  /\ gi.pc = "join"
  /\ gi.imu = "reading"
  /\ gi' = IF ok THEN [gi EXCEPT !.imu = "ok", !.imu_values = sample]
                 ELSE [gi EXCEPT !.imu = "err"]
  /\ UNCHANGED <<fb, bus, ret, rtVars>>

\* Mutant: the results are combined as soon as the actuator read is done.
GiJoinEarly ==
  /\ gi.pc = "join"
  /\ IF gi.act = "err" \/ gi.imu = "err"
       THEN /\ gi' = [gi EXCEPT !.pc = "err"]
            /\ ret' = Returned("get_inputs", GiArgs,
                         Err(IF gi.act = "err" THEN "Joint name not found"
                             ELSE "Failed to get IMU values"))
       ELSE /\ gi.act = "ok"
            /\ gi' = [gi EXCEPT !.pc = "fields", !.k = 1]
            /\ UNCHANGED ret
  /\ UNCHANGED <<fb, bus, rtVars>>

\* provider.rs:158-171: try_join returns the first error, or both results.
GiJoin ==
  /\ gi.pc = "join"
  /\ IF gi.act = "err" \/ gi.imu = "err"
       THEN /\ gi' = [gi EXCEPT !.pc = "err"]
            /\ ret' = Returned("get_inputs", GiArgs,
                         Err(IF gi.act = "err" THEN "Joint name not found"
                             ELSE "Failed to get IMU values"))
       ELSE /\ gi.act = "ok"
            /\ gi.imu = "ok"
            /\ gi' = [gi EXCEPT !.pc = "fields", !.k = 1]
            /\ UNCHANGED ret
  /\ UNCHANGED <<fb, bus, rtVars>>

\* Mutant: every joint slot reads the actuator states again.
GiFieldRereads(secs, commands) ==
  /\ gi.pc = "fields"
  /\ gi.k <= Len(gi.input_types)
  /\ LET t == gi.input_types[gi.k]
         r == DeriveField(t, gi, secs, commands)
     IN  /\ IF r[1] = "Err"
              THEN /\ gi' = [gi EXCEPT !.pc = "err"]
                   /\ ret' = Returned("get_inputs", GiArgs, r)
              ELSE /\ gi' = [gi EXCEPT
                               !.k = @ + 1,
                               !.out = [x \in DOMAIN gi.out \cup {t} |->
                                          IF x = t THEN r[2] ELSE gi.out[x]]]
                   /\ UNCHANGED ret
         /\ bus' = IF t \in {"JointAngles", "JointAngularVelocities"}
                     THEN Append(bus, [op |-> "get_actuators_state",
                                       ids |-> gi.actuator_ids])
                     ELSE bus
  /\ UNCHANGED <<fb, rtVars>>

\* provider.rs:173-220: the next requested slot is filled, or its error
\* returned.
GiField(secs, commands) ==
  /\ gi.pc = "fields"
  /\ gi.k <= Len(gi.input_types)
  /\ LET t == gi.input_types[gi.k]
         r == DeriveField(t, gi, secs, commands)
     IN  IF r[1] = "Err"
           THEN /\ gi' = [gi EXCEPT !.pc = "err"]
                /\ ret' = Returned("get_inputs", GiArgs, r)
           ELSE /\ gi' = [gi EXCEPT
                            !.k = @ + 1,
                            !.out = [x \in DOMAIN gi.out \cup {t} |->
                                       IF x = t THEN r[2] ELSE gi.out[x]]]
                /\ UNCHANGED ret
  /\ UNCHANGED <<fb, bus, rtVars>>

\* provider.rs:221-222: the map is returned.
GiReturn ==
  /\ gi.pc = "fields"
  /\ gi.k > Len(gi.input_types)
  /\ gi' = [gi EXCEPT !.pc = "ok"]
  /\ ret' = Returned("get_inputs", GiArgs, Ok(gi.out))
  /\ UNCHANGED <<fb, bus, rtVars>>

\* ---------------------------------------------------- provider: commands
\* Mutant: a home table of the arms only.
HomePositionArmsOnly ==
  [k \in 1..10 |-> <<IF k <= 5 THEN 20 + k ELSE 5 + k, Zero>>]

\* constants.rs:54-75.
HOME_POSITION ==
  << <<21, Zero>>,
     <<22, ToRadians(Rat(-10, 1))>>,
     <<23, Zero>>,
     <<24, ToRadians(Rat(90, 1))>>,
     <<25, Zero>>,
     <<11, Zero>>,
     <<12, ToRadians(Rat(10, 1))>>,
     <<13, Zero>>,
     <<14, ToRadians(Rat(-90, 1))>>,
     <<15, Zero>>,
     <<41, ToRadians(Rat(-20, 1))>>,
     <<42, ToRadians(Zero)>>,
     <<43, Zero>>,
     <<44, ToRadians(Rat(-50, 1))>>,
     <<45, ToRadians(Rat(30, 1))>>,
     <<31, ToRadians(Rat(20, 1))>>,
     <<32, ToRadians(Zero)>>,
     <<33, Zero>>,
     <<34, ToRadians(Rat(50, 1))>>,
     <<35, ToRadians(Rat(-30, 1))>> >>

\* A position-mode ActuatorCommand (provider.rs:130-135, 250-255).
PositionCommand(id, position) ==
  [actuator_id |-> id, position |-> Some(position), velocity |-> None,
   torque |-> None]

\* Mutant: the batch is given up at the first failed write.
CommandActuatorsAbort(commands, failing) ==
  LET n == IF \E k \in 1..Len(commands) : k \in failing
             THEN Min({k \in 1..Len(commands) : k \in failing})
             ELSE Len(commands)
  IN  [value |-> IF n < Len(commands) \/ n \in failing
                   THEN Err("write failed")
                   ELSE Ok([k \in 1..n |->
                              [actuator_id |-> commands[k].actuator_id,
                               success |-> TRUE]]),
       writes |-> [k \in 1..n |->
                     [op |-> "command",
                      motor_id |-> commands[k].actuator_id % 256,
                      position |->
                        ToRadians(UnwrapOr(commands[k].position, Zero)),
                      ok |-> k \notin failing]]]

\* actuators.rs:134-164: every command is written in order, whatever the
\* earlier writes did; failing holds the positions of the commands whose
\* write the bus fails.  The value returned and the writes made.
command_actuators(commands, failing) ==
  [value |-> Ok([k \in 1..Len(commands) |->
                   [actuator_id |-> commands[k].actuator_id,
                    success |-> k \notin failing]]),
   writes |-> [k \in 1..Len(commands) |->
                 [op |-> "command",
                  motor_id |-> commands[k].actuator_id % 256,
                  position |-> ToRadians(UnwrapOr(commands[k].position, Zero)),
                  ok |-> k \notin failing]]]

\* actuators.rs:166-275: command_actuators_slowed.  order is the order in
\* which the HashSet of the ids is iterated, failing the positions of the
\* commands of a batch whose write the bus fails.  The value returned, the
\* writes made and the batches handed to command_actuators.
command_actuators_slowed(start_commands, end_commands, total_delay, num_steps, order, failing) ==
  LET Ids(cs) == {cs[k].actuator_id : k \in 1..Len(cs)}
      \* collect() into a HashMap: the last command of an id stays
      Get(cs, id) ==
        LET at == {k \in 1..Len(cs) : cs[k].actuator_id = id}
        IN  cs[CHOOSE k \in at : \A j \in at : j <= k]
      Lerp(start, end, t) ==
        CASE start[1] = "Some" /\ end[1] = "Some" ->
               Some(RAdd(RMul(start[2], RSub(One, t)), RMul(end[2], t)))
          [] start[1] = "Some" /\ end[1] = "None" -> start
          [] start[1] = "None" /\ end[1] = "Some" -> end
          [] OTHER -> None
      Batch(step) ==
        LET t == Rat(step, num_steps - 1)
        IN  [k \in 1..Len(order) |->
               LET start_cmd == Get(start_commands, order[k])
                   end_cmd == Get(end_commands, order[k])
               IN  [actuator_id |-> order[k],
                    position |->
                      Lerp(start_cmd.position, end_cmd.position, t),
                    velocity |->
                      Lerp(start_cmd.velocity, end_cmd.velocity, t),
                    torque |->
                      Lerp(start_cmd.torque, end_cmd.torque, t)]]
      Refused(e) == [value |-> Err(e), writes |-> <<>>, batches |-> <<>>]
  IN  IF total_delay = 0
        THEN Refused("Total delay must be greater than zero")
      ELSE IF num_steps = 0
        THEN Refused("Number of steps must be greater than zero")
      ELSE IF Ids(start_commands) # Ids(end_commands)
        THEN Refused("Start and end commands must have the same actuator IDs")
      ELSE [value |-> command_actuators(Batch(num_steps - 1), failing).value,
            writes |->
              [j \in 1..(num_steps * Len(order)) |->
                 command_actuators(Batch((j - 1) \div Len(order)),
                                   failing).writes[((j - 1) % Len(order)) + 1]],
            batches |-> [i \in 1..num_steps |-> Batch(i - 1)]]

\* A direct call of Actuator::command_actuators_slowed; the log holds the
\* batches ("Commands (slowed)", actuators.rs:257-261).
CommandActuatorsSlowedCall(start_commands, end_commands, total_delay, num_steps, failing) ==
  /\ ProviderIdle
  /\ LET ids == {start_commands[k].actuator_id :
                   k \in 1..Len(start_commands)}
                   \cup {end_commands[k].actuator_id :
                           k \in 1..Len(end_commands)}
     IN  \E order \in {o \in [1..Cardinality(ids) -> ids] :
                         \A i, j \in DOMAIN o : o[i] = o[j] => i = j} :
           LET c == command_actuators_slowed(start_commands, end_commands,
                                             total_delay, num_steps, order,
                                             failing)
           IN  /\ bus' = bus \o c.writes
               /\ ret' = [Returned("command_actuators_slowed",
                             [start_commands |-> start_commands,
                              end_commands |-> end_commands,
                              total_delay |-> total_delay,
                              num_steps |-> num_steps, failing |-> failing],
                             c.value) EXCEPT !.log = c.batches]
  /\ UNCHANGED <<gi, fb, rtVars>>

\* A direct call of Actuator::command_actuators.
CommandActuatorsCall(commands, failing) ==
  /\ ProviderIdle
  /\ LET c == command_actuators(commands, failing)
     IN  /\ bus' = bus \o c.writes
         /\ ret' = Returned("command_actuators",
                      [commands |-> commands, failing |-> failing], c.value)
  /\ UNCHANGED <<gi, fb, rtVars>>

\* provider.rs:235-257: one command per joint, or the error of the first
\* name the table does not hold.
TakeActionCommands(action, joint_names) ==
  LET found == [k \in 1..Len(joint_names) |-> FindId(joint_names[k])]
  IN  IF \E k \in 1..Len(joint_names) : found[k][1] = "None"
        THEN Err("Joint name not found in ACTUATOR_NAME_TO_ID")
        ELSE Ok([k \in 1..Len(joint_names) |->
                   PositionCommand(found[k][2], action[k])])

\* provider.rs:225-267: take_action; the results of the batch are dropped.
take_action(action, joint_names, failing) ==
  /\ ProviderIdle
  /\ LET args == [action |-> action, joint_names |-> joint_names,
                  failing |-> failing]
     IN  IF Len(joint_names) # Len(action)
           THEN /\ ret' = Returned("take_action", args, <<"Panic">>)
                /\ UNCHANGED bus
           ELSE LET cs == TakeActionCommands(action, joint_names)
                IN  IF cs[1] = "Err"
                      THEN /\ ret' = Returned("take_action", args, cs)
                           /\ UNCHANGED bus
                      ELSE LET c == command_actuators(cs[2], failing)
                           IN  /\ bus' = bus \o c.writes
                               /\ ret' = Returned("take_action", args,
                                            IF c.value[1] = "Err" THEN c.value
                                            ELSE Ok(<<>>))
  /\ UNCHANGED <<gi, fb, rtVars>>

\* provider.rs:124-143: move_to_home sends the home positions once.
move_to_home(failing) ==
  /\ ProviderIdle
  /\ LET commands == [k \in 1..Len(HOME_POSITION) |->
                        PositionCommand(HOME_POSITION[k][1],
                                        HOME_POSITION[k][2])]
         c == command_actuators(commands, failing)
     IN  /\ bus' = bus \o c.writes
         /\ ret' = Returned("move_to_home", [failing |-> failing],
                      IF c.value[1] = "Err" THEN c.value ELSE Ok(<<>>))
  /\ UNCHANGED <<gi, fb, rtVars>>

\* Batches for a direct call: commands for the first n table rows.
CommandBatches ==
  {[k \in 1..n |-> PositionCommand(ACTUATOR_NAME_TO_ID[k][2], Rat(k, 1))] :
     n \in 0..MaxCommands}

\* The commands of a batch whose write the bus fails.
Failures == SUBSET (1..MaxCommands)

\* Policy outputs handed to take_action: one value per joint, or one short.
ActionTensors == {Ramp, [k \in 1..(NumJoints - 1) |-> One]}

NextProvider ==
  \/ \E input_types \in InputRequests : \E joint_names \in MetaJointNames :
       \E num_commands \in NumCommands :
         get_inputs(input_types, joint_names, num_commands)
  \/ GiActuatorStart
  \/ GiActuatorDone
  \/ GiImuStart
  \/ \E ok \in BOOLEAN : \E sample \in ImuSamples : GiImuDone(ok, sample)
  \/ GiJoin
  \/ \E secs \in {One} : \E commands \in TeleopVectors :
       GiField(secs, commands)
  \/ GiReturn
  \/ \E commands \in CommandBatches : \E failing \in Failures :
       CommandActuatorsCall(commands, failing)
  \/ \E action \in ActionTensors : \E joint_names \in MetaJointNames :
       \E failing \in Failures : take_action(action, joint_names, failing)
  \/ \E failing \in Failures : move_to_home(failing)
  \/ \E start_commands \in CommandBatches :
       \E end_commands \in
           {[k \in 1..Len(b) |-> PositionCommand(b[k].actuator_id, Rat(-k, 1))] :
              b \in CommandBatches} :
         \E total_delay \in 0..1 : \E num_steps \in 0..MaxSteps :
           \E failing \in {{}, {1}} :
             CommandActuatorsSlowedCall(start_commands, end_commands,
                                        total_delay, num_steps, failing)

SpecProvider == InitProvider /\ [][NextProvider]_vars

\* ================================================================ keyboard
\* keyboard.rs:82-140: the stores the listener makes for a key event, as
\* <<index, value>> in program order.  The handlers that step a value load
\* it first; key 2 stores the zero pattern to seven statics directly, which
\* is what set_command(index, 0.0) stores.
KeyOps(kind, code, cmd) ==
  LET yaw == from_bits(cmd.COMMAND_YAW)
      roll == from_bits(cmd.COMMAND_ROLL)
      pitch == from_bits(cmd.COMMAND_PITCH)
      tenth == Rat(1, 10)
      fifth == Rat(1, 5)
  IN  CASE kind = "Press" /\ code = "w" -> << <<0, fifth>> >>
        [] kind = "Press" /\ code = "s" -> << <<0, RSub(Zero, fifth)>> >>
        [] kind = "Press" /\ code = "a" -> << <<1, fifth>> >>
        [] kind = "Press" /\ code = "d" -> << <<1, RSub(Zero, fifth)>> >>
        [] kind = "Press" /\ code = "q" ->
             << <<2, tenth>>, <<3, RAdd(yaw, tenth)>> >>
        [] kind = "Press" /\ code = "e" ->
             << <<2, RSub(Zero, tenth)>>, <<3, RSub(yaw, tenth)>> >>
        [] kind = "Press" /\ code = "r" -> << <<5, RAdd(roll, tenth)>> >>
        [] kind = "Press" /\ code = "f" -> << <<5, RSub(roll, tenth)>> >>
        [] kind = "Press" /\ code = "t" -> << <<6, RAdd(pitch, tenth)>> >>
        [] kind = "Press" /\ code = "g" -> << <<6, RSub(pitch, tenth)>> >>
        [] kind = "Press" /\ code = "6" -> << <<7, Rat(6, 1)>> >>
        [] kind = "Press" /\ code = "7" -> << <<7, Rat(7, 1)>> >>
        [] kind = "Press" /\ code = "8" -> << <<7, Rat(8, 1)>> >>
        [] kind = "Press" /\ code = "9" -> << <<7, Rat(9, 1)>> >>
        [] kind = "Press" /\ code = "2" ->
             << <<0, Zero>>, <<1, Zero>>, <<3, Zero>>, <<2, Zero>>,
                <<4, Zero>>, <<6, Zero>>, <<5, Zero>> >>
        [] kind = "Release" /\ code \in {"w", "s"} -> << <<0, Zero>> >>
        [] kind = "Release" /\ code \in {"a", "d"} -> << <<1, Zero>> >>
        [] kind = "Release" /\ code \in {"q", "e"} -> << <<2, Zero>> >>
        [] OTHER -> <<>>

\* The key events of the model: <<kind, code>>.
KeyEvents ==
  { <<"Press", "w">>, <<"Release", "w">>, <<"Press", "q">>, <<"Press", "e">>,
    <<"Press", "t">>, <<"Press", "g">>, <<"Press", "2">>, <<"Press", "6">>,
    <<"Press", "x">> }

\* A store to index: the statics, the history of the index and the
\* indexes written since get_commands was entered.
StoreTo(index, value) ==
  [teleop EXCEPT
     !.cmd = set_command(teleop.cmd, index, value),
     !.written = IF index \in 0..7 THEN [@ EXCEPT ![index] = value] ELSE @,
     !.gc.dirty = IF teleop.gc.pc # "idle" /\ index \in 0..7
                    THEN @ \cup {index} ELSE @]

\* keyboard.rs:59-66: the listener thread is started; it ends at once when
\* raw mode cannot be enabled.
StartListener(raw_ok) ==
  /\ listener = "none"
  /\ KEYBOARD_RUNNING' = TRUE
  /\ listener' = IF raw_ok THEN "reading" ELSE "ended"
  /\ teleop' = [teleop EXCEPT !.cleaned = FALSE]
  /\ UNCHANGED <<main_pc, rtFields, running, runtime, shut, handle, task,
                 SHUTDOWN_REQUESTED, issued, histVars, provVars, imu, ctor,
                 api>>

\* keyboard.rs:68: with the handler finished the listener tests
\* KEYBOARD_RUNNING and blocks in event::read again, or leaves its loop.
ListenerLoop(handled) ==
  /\ listener' = IF handled /\ ~KEYBOARD_RUNNING THEN "ended" ELSE listener
  /\ UNCHANGED <<main_pc, rtFields, running, runtime, shut, handle, task,
                 KEYBOARD_RUNNING, SHUTDOWN_REQUESTED, issued, histVars,
                 provVars, imu, ctor, api>>

\* keyboard.rs:71-72, 82-140: event::read returns a key event other than
\* an ESC press; the handler loads what it needs.
KeyEvent(kind, code) ==
  /\ listener = "reading"
  /\ teleop.pending = <<>>
  /\ teleop.keys < MaxKeys
  /\ LET ops == KeyOps(kind, code, teleop.cmd)
     IN  /\ \A k \in 1..Len(ops) : ops[k][2] \in F32Values
         /\ teleop' = [teleop EXCEPT
               !.pending = ops, !.keys = @ + 1,
               !.before = IF ops = <<>> THEN <<>>
                          ELSE get_commands(teleop.cmd)]
         /\ ListenerLoop(ops = <<>>)

\* The next store of the handler.
ListenerStore ==
  /\ teleop.pending # <<>>
  /\ LET op == Head(teleop.pending)
         stored == StoreTo(op[1], op[2])
         last == Len(teleop.pending) = 1
     IN  teleop' = [stored EXCEPT
           !.pending = Tail(teleop.pending),
           !.before = IF last THEN <<>> ELSE @,
           !.gc.snaps = IF last /\ teleop.gc.pc = "loading"
                          THEN @ \cup Agreeing({get_commands(stored.cmd)},
                                               teleop.gc.out)
                          ELSE @]
  /\ ListenerLoop(Len(teleop.pending) = 1)

\* keyboard.rs:161-164: cleanup_keyboard; a second call leaves the state
\* as it is.
CleanupKeyboard ==
  /\ ~teleop.cleaned
  /\ KEYBOARD_RUNNING' = FALSE
  /\ teleop' = [teleop EXCEPT !.cleaned = TRUE]
  /\ UNCHANGED <<main_pc, rtFields, running, runtime, shut, handle, task,
                 SHUTDOWN_REQUESTED, listener, issued, histVars, provVars,
                 imu, ctor, api>>

\* A direct call of set_command, of no key event: the vectors between key
\* events are those with and without its store.
SetCommandCall(index, value) ==
  /\ teleop.keys < MaxKeys
  /\ LET put(v) == IF index \in 0..7 /\ v # <<>>
                     THEN [v EXCEPT ![index + 1] = value] ELSE v
     IN  teleop' = [StoreTo(index, value) EXCEPT
           !.keys = teleop.keys + 1,
           !.before = put(@),
           !.gc.snaps = IF teleop.gc.pc = "loading"
                          THEN @ \cup Agreeing({put(v) : v \in @},
                                               teleop.gc.out)
                          ELSE @]
  /\ UNCHANGED <<coreVars, provVars, imu, ctor, api>>

\* keyboard.rs:20: get_commands is entered.
GetCommandsCall ==
  /\ teleop.gc.pc = "idle"
  /\ teleop' = [teleop EXCEPT
       !.gc = [GcIdle EXCEPT
                 !.pc = "loading", !.k = 1,
                 !.snaps = {IF teleop.pending = <<>>
                              THEN get_commands(teleop.cmd)
                              ELSE teleop.before}]]
  /\ UNCHANGED <<coreVars, provVars, imu, ctor, api>>

\* keyboard.rs:22-29: the next of the eight relaxed loads.
GetCommandsLoad ==
  /\ teleop.gc.pc = "loading"
  /\ LET g == teleop.gc
         out == Append(g.out, from_bits(teleop.cmd[GetOrder[g.k]]))
     IN  teleop' = [teleop EXCEPT
           !.gc = [g EXCEPT
                     !.out = out,
                     !.k = g.k + 1,
                     !.pc = IF g.k = 8 THEN "done" ELSE "loading",
                     !.snaps = Agreeing(@, out)]]
  /\ UNCHANGED <<coreVars, provVars, imu, ctor, api>>

\* The direct calls write index 4 and the unused index 8.
NextTeleop ==
  \/ \E raw_ok \in BOOLEAN : StartListener(raw_ok)
  \/ \E e \in KeyEvents : KeyEvent(e[1], e[2])
  \/ ListenerStore
  \/ teleop.pending = <<>> /\ ListenerEsc
  \/ CleanupKeyboard
  \/ \E index \in {4, 8} : \E value \in {Rat(1, 5)} :
       SetCommandCall(index, value)
  \/ GetCommandsCall
  \/ GetCommandsLoad

SpecTeleop == Init /\ [][NextTeleop]_vars

\* ===================================================================== imu
\* imu.rs:27-45: ImuValues::default(), the fields grouped by the hardware
\* component they are copied from; quat is <<w, x, y, z>>.
ImuDefault ==
  [accel |-> <<Zero, Zero, Zero>>, gyro |-> <<Zero, Zero, Zero>>,
   angle |-> <<Zero, Zero, Zero>>, quat |-> <<Zero, Zero, Zero, Zero>>]

\* The hardware frame number t, every component present.
HwSample(t) ==
  [accelerometer |-> Some(<<Rat(t, 1), Zero, Rat(981, 100)>>),
   gyroscope |-> Some(<<Rat(t, 1), Rat(t, 1), Zero>>),
   euler |-> Some(<<Zero, Rat(t, 1), Zero>>),
   quaternion |-> Some(<<Rat(t, 1), Zero, Zero, Rat(t, 1)>>)]

\* What imu_hardware.get_data() may return (imu.rs:93): an error, a whole
\* frame, or a frame that lacks a component.
HwResults ==
  { Err("read failed"), Ok(HwSample(1)), Ok(HwSample(2)),
    Ok([HwSample(1) EXCEPT !.gyroscope = None]),
    Ok([HwSample(2) EXCEPT !.quaternion = None]) }

\* imu.rs:124-136: the stored sample after the whole of frame d is copied.
ImuStore(d) ==
  [accel |-> d.accelerometer[2], gyro |-> d.gyroscope[2],
   angle |-> d.euler[2], quat |-> d.quaternion[2]]

\* What the provider reads of a sample (provider.rs:375-377, 390-392, 408).
IMUData(values) ==
  [accel |-> values.accel, gyro |-> values.gyro, quat |-> values.quat]

\* imu.rs:53-157: IMU::new.  It fails when no interface can be opened;
\* otherwise the sample holds the default and the reader is spawned.
\* stored is the last frame copied in full (history), seen what the reader
\* had stored and was doing when the sample was read (history).
ImuNew(ok) ==
  /\ imu.pc = "none"
  /\ imu' = IF ok
              THEN [pc |-> "get_data", read_errors |-> 0, hw |-> None,
                    lock |-> "free", data |-> ImuDefault, k |-> 0,
                    stored |-> None, seen |-> None]
              ELSE [pc |-> "failed"]
  /\ UNCHANGED <<coreVars, provVars, teleop, ctor, api>>

ImuAlive == imu.pc \notin {"none", "failed"}

\* imu.rs:93, 140-147: the reader asks the hardware for a frame; an error
\* is counted and more than ImuMaxErrors of them in a row end the reader.
ImuGetData(r) ==
  /\ ImuAlive
  /\ imu.pc = "get_data"
  /\ imu' = IF r[1] = "Err"
              THEN [imu EXCEPT
                      !.read_errors = @ + 1,
                      !.pc = IF imu.read_errors + 1 > ImuMaxErrors
                               THEN "stopped" ELSE "sleep"]
              ELSE [imu EXCEPT !.hw = Some(r[2]), !.pc = "write_lock"]
  /\ UNCHANGED <<coreVars, provVars, teleop, ctor, api>>

\* imu.rs:95: the write lock is taken.
ImuWriteLock ==
  /\ ImuAlive
  /\ imu.pc = "write_lock"
  /\ imu.lock = "free"
  /\ imu' = [imu EXCEPT !.lock = "write", !.pc = "check"]
  /\ UNCHANGED <<coreVars, provVars, teleop, ctor, api>>

\* Mutant: each component is copied as soon as it is found present.
ImuCheckLate ==
  /\ ImuAlive
  /\ imu.pc = "check"
  /\ LET d == imu.hw[2]
     IN  IF d.accelerometer[1] = "None"
           THEN imu' = [imu EXCEPT !.lock = "free", !.pc = "get_data"]
           ELSE IF \E c \in {"gyroscope", "euler", "quaternion"} :
                     d[c][1] = "None"
             THEN imu' = [imu EXCEPT !.lock = "free", !.pc = "get_data",
                                     !.data.accel = d.accelerometer[2]]
             ELSE imu' = [imu EXCEPT !.pc = "assign", !.k = 1]
  /\ UNCHANGED <<coreVars, provVars, teleop, ctor, api>>

\* imu.rs:96-123: the four components are matched before anything is
\* stored; a missing one continues the loop, which drops the lock and
\* skips both the reset of the error count and the sleep.
ImuCheck ==
  /\ ImuAlive
  /\ imu.pc = "check"
  /\ LET d == imu.hw[2]
     IN  IF \E c \in {"accelerometer", "gyroscope", "euler", "quaternion"} :
              d[c][1] = "None"
           THEN imu' = [imu EXCEPT !.lock = "free", !.pc = "get_data"]
           ELSE imu' = [imu EXCEPT !.pc = "assign", !.k = 1]
  /\ UNCHANGED <<coreVars, provVars, teleop, ctor, api>>

\* imu.rs:124-138: the fields copied from one component; after the last
\* the lock is dropped and the error count reset.
ImuAssign ==
  /\ ImuAlive
  /\ imu.pc = "assign"
  /\ LET d == ImuStore(imu.hw[2])
         next == CASE imu.k = 1 -> [imu.data EXCEPT !.accel = d.accel]
                   [] imu.k = 2 -> [imu.data EXCEPT !.gyro = d.gyro]
                   [] imu.k = 3 -> [imu.data EXCEPT !.angle = d.angle]
                   [] OTHER -> [imu.data EXCEPT !.quat = d.quat]
     IN  imu' = IF imu.k < 4
                  THEN [imu EXCEPT !.data = next, !.k = @ + 1]
                  ELSE [imu EXCEPT !.data = next, !.k = 0, !.lock = "free",
                                   !.read_errors = 0, !.pc = "sleep",
                                   !.stored = Some(imu.hw[2])]
  /\ UNCHANGED <<coreVars, provVars, teleop, ctor, api>>

\* imu.rs:149: the 10 ms pause between two reads.
ImuSleep ==
  /\ ImuAlive
  /\ imu.pc = "sleep"
  /\ imu' = [imu EXCEPT !.pc = "get_data"]
  /\ UNCHANGED <<coreVars, provVars, teleop, ctor, api>>

\* What a reader of the sample finds the background task doing.
ImuSeen == Some([stored |-> imu.stored, reader |-> imu.pc])

\* Mutant: the sample is cloned without the read lock.
ImuGetValuesUnlocked ==
  /\ ImuAlive
  /\ ProviderIdle
  /\ ret' = Returned("IMU::get_values", <<>>, Ok(imu.data))
  /\ imu' = [imu EXCEPT !.seen = ImuSeen]
  /\ UNCHANGED <<coreVars, gi, fb, bus, teleop, ctor, api>>

\* imu.rs:159-164: get_values clones the sample under the read lock; the
\* lock is never poisoned, for the writer cannot panic while it holds it.
ImuGetValues ==
  /\ ImuAlive
  /\ ProviderIdle
  /\ imu.lock # "write"
  /\ ret' = Returned("IMU::get_values", <<>>, Ok(imu.data))
  /\ imu' = [imu EXCEPT !.seen = ImuSeen]
  /\ UNCHANGED <<coreVars, gi, fb, bus, teleop, ctor, api>>

\* provider.rs:163-167 over imu.rs:159-164: the IMU branch of get_inputs
\* takes the stored sample; the error mapping has nothing to map.
GiImuRead ==
  /\ ImuAlive
  /\ gi.pc = "join"
  /\ gi.imu = "reading"
  /\ imu.lock # "write"
  /\ gi' = [gi EXCEPT !.imu = "ok", !.imu_values = IMUData(imu.data)]
  /\ imu' = [imu EXCEPT !.seen = ImuSeen]
  /\ UNCHANGED <<coreVars, fb, bus, ret, teleop, ctor, api>>

\* The bus holds feedback of every modelled joint.
InitImu ==
  /\ InitRuntime
  /\ gi = GiIdle
  /\ fb \in {f \in ProvFeedbacks :
              DOMAIN f = {actuator_ids[k] : k \in 1..NumJoints}}
  /\ bus = <<>>
  /\ ret = NoRet

NextImu ==
  \/ \E ok \in BOOLEAN : ImuNew(ok)
  \/ \E r \in HwResults : ImuGetData(r)
  \/ ImuWriteLock
  \/ ImuCheck
  \/ ImuAssign
  \/ ImuSleep
  \/ ImuGetValues
  \/ ImuAlive /\ get_inputs(<<"Quaternion", "Accelerometer">>, JointNames, None)
  \/ GiActuatorStart
  \/ GiActuatorDone
  \/ GiImuStart
  \/ GiImuRead
  \/ GiJoin
  \/ \E secs \in {One} : \E commands \in TeleopVectors :
       GiField(secs, commands)
  \/ GiReturn

SpecImu == InitImu /\ [][NextImu]_vars

\* ================================================================= startup
\* constants.rs:25-28: the soft torque limits by actuator type.
TAU ==
  [robstride_00 |-> Rat(98, 10), robstride_02 |-> Rat(119, 10),
   robstride_03 |-> Rat(42, 1), robstride_04 |-> Rat(84, 1)]

\* constants.rs:31-52: rows of (id, kp, kd, max_torque).
ACTUATOR_KP_KD ==
  << <<11, Rat(100, 1), Rat(8284, 1000), TAU.robstride_03>>,
     <<12, Rat(100, 1), Rat(8257, 1000), TAU.robstride_03>>,
     <<13, Rat(40, 1), Rat(945, 1000), TAU.robstride_02>>,
     <<14, Rat(40, 1), Rat(1266, 1000), TAU.robstride_02>>,
     <<15, Rat(20, 1), Rat(295, 1000), TAU.robstride_00>>,
     <<21, Rat(100, 1), Rat(8284, 1000), TAU.robstride_03>>,
     <<22, Rat(100, 1), Rat(8257, 1000), TAU.robstride_03>>,
     <<23, Rat(40, 1), Rat(945, 1000), TAU.robstride_02>>,
     <<24, Rat(40, 1), Rat(1266, 1000), TAU.robstride_02>>,
     <<25, Rat(20, 1), Rat(295, 1000), TAU.robstride_00>>,
     <<31, Rat(150, 1), Rat(24722, 1000), TAU.robstride_04>>,
     <<32, Rat(200, 1), Rat(26387, 1000), TAU.robstride_03>>,
     <<33, Rat(100, 1), Rat(3419, 1000), TAU.robstride_03>>,
     <<34, Rat(150, 1), Rat(8654, 1000), TAU.robstride_04>>,
     <<35, Rat(40, 1), Rat(99, 100), TAU.robstride_02>>,
     <<41, Rat(150, 1), Rat(24722, 1000), TAU.robstride_04>>,
     <<42, Rat(200, 1), Rat(26387, 1000), TAU.robstride_03>>,
     <<43, Rat(100, 1), Rat(3419, 1000), TAU.robstride_03>>,
     <<44, Rat(150, 1), Rat(8654, 1000), TAU.robstride_04>>,
     <<45, Rat(40, 1), Rat(99, 100), TAU.robstride_02>> >>

\* actuators.rs:332-539: the ids of the actuators configured on the bus,
\* in the order of the vector.
create_kbot_actuators ==
  <<11, 12, 13, 14, 15, 21, 22, 23, 24, 25, 31, 32, 33, 34, 35,
    41, 42, 43, 44, 45>>

\* provider.rs:24, cut to the modelled joints.
kbot_actuator_ids == [k \in 1..NumJoints |-> create_kbot_actuators[k]]

\* provider.rs:45-47: the first row of the gain table with the id, if any.
FindRow(table, id) ==
  LET hits == {k \in 1..Len(table) : table[k][1] = id}
  IN  IF hits = {} THEN None ELSE Some(table[Min(hits)])

\* The gain tables a build may carry: the compiled-in one and one that has
\* lost the row of the second configured actuator.
GainTables ==
  {ACTUATOR_KP_KD,
   SelectSeq(ACTUATOR_KP_KD, LAMBDA row : row[1] # create_kbot_actuators[2])}

\* actuators.rs:281-287: the control configuration of a request.
ControlConfig(row, torque_scale) ==
  [kp |-> row[2], kd |-> row[3], max_torque |-> Some(RMul(row[4], torque_scale)),
   max_velocity |-> Some(Rat(5, 1)), max_current |-> Some(Rat(10, 1))]

\* provider.rs:22-42: the constructor is entered; the IMU and the bus are
\* opened together and the first IMU sample is read.  Any failure there
\* ends the constructor with the error.
CtorNew(torque_enabled, torque_scale, gains, opened) ==
  /\ ctor.pc = "none"
  /\ ret.fn = "none"
  /\ IF opened
       THEN /\ ctor' = [pc |-> "find", torque_enabled |-> torque_enabled,
                        torque_scale |-> torque_scale, gains |-> gains,
                        k |-> 1, ops |-> <<>>, log |-> <<>>]
            /\ UNCHANGED ret
       ELSE /\ ctor' = [ctor EXCEPT !.pc = "failed"]
            /\ ret' = Returned("KBotProvider::new",
                         [torque_enabled |-> torque_enabled, gains |-> gains],
                         Err("Provider"))
  /\ UNCHANGED <<coreVars, gi, fb, bus, teleop, imu, api>>

\* The actuator the loop is at.
CtorId == kbot_actuator_ids[ctor.k]

\* Mutant: an actuator without a gain row ends the constructor.
CtorFindFatal ==
  /\ ctor.pc = "find"
  /\ ctor.k <= Len(kbot_actuator_ids)
  /\ IF FindRow(ctor.gains, CtorId) = None
       THEN /\ ctor' = [ctor EXCEPT !.pc = "failed"]
            /\ ret' = Returned("KBotProvider::new",
                         [torque_enabled |-> ctor.torque_enabled,
                          gains |-> ctor.gains],
                         Err("Provider"))
       ELSE /\ ctor' = [ctor EXCEPT !.pc = "configure"]
            /\ UNCHANGED ret
  /\ UNCHANGED <<coreVars, gi, fb, bus, teleop, imu, api>>

\* provider.rs:44-48 and 68-70: the gain row of the next actuator is looked
\* up; without a row a warning is logged and the loop goes on.
CtorFind ==
  /\ ctor.pc = "find"
  /\ ctor.k <= Len(kbot_actuator_ids)
  /\ IF FindRow(ctor.gains, CtorId) = None
       THEN ctor' = [ctor EXCEPT
                       !.log = Append(@, <<"No kp and kd found", CtorId>>),
                       !.k = @ + 1]
       ELSE ctor' = [ctor EXCEPT !.pc = "configure"]
  /\ UNCHANGED <<coreVars, provVars, teleop, imu, api>>

\* Mutant: a failed configuration ends configure_actuator with the error.
CtorConfigureChecked(ok) ==
  /\ ctor.pc = "configure"
  /\ LET row == FindRow(ctor.gains, CtorId)[2]
         op == [op |-> "configure", motor_id |-> CtorId % 256,
                config |-> ControlConfig(row, ctor.torque_scale), ok |-> ok]
     IN  ctor' = [ctor EXCEPT
                    !.ops = Append(@, op),
                    !.pc = IF ok THEN "torque" ELSE "find",
                    !.k = IF ok THEN @ ELSE @ + 1,
                    !.log = IF ok THEN @
                            ELSE Append(@, <<"Failed to configure torque",
                                             CtorId>>)]
  /\ UNCHANGED <<coreVars, provVars, teleop, imu, api>>

\* actuators.rs:277-289: configure_actuator hands the gains and limits to
\* the supervisor and keeps the result for its response.
CtorConfigure(ok) ==
  /\ ctor.pc = "configure"
  /\ LET row == FindRow(ctor.gains, CtorId)[2]
         op == [op |-> "configure", motor_id |-> CtorId % 256,
                config |-> ControlConfig(row, ctor.torque_scale), ok |-> ok]
     IN  ctor' = [ctor EXCEPT !.ops = Append(@, op), !.pc = "torque"]
  /\ UNCHANGED <<coreVars, provVars, teleop, imu, api>>

\* actuators.rs:291-310 with provider.rs:52-67: torque is enabled or
\* disabled whatever the configuration returned; only a failure of this
\* write makes configure_actuator return an error, which the constructor
\* logs.  A response with success = false is dropped.
CtorTorque(ok) ==
  /\ ctor.pc = "torque"
  /\ LET op == [op |-> IF ctor.torque_enabled THEN "enable" ELSE "disable",
                motor_id |-> CtorId % 256, config |-> None, ok |-> ok]
     IN  ctor' = [ctor EXCEPT
                    !.ops = Append(@, op),
                    !.pc = "find",
                    !.k = @ + 1,
                    !.log = IF ok THEN @
                            ELSE Append(@, <<"Failed to configure torque",
                                             CtorId>>)]
  /\ UNCHANGED <<coreVars, provVars, teleop, imu, api>>

\* provider.rs:73-78: after the loop the provider is returned.
CtorReturn ==
  /\ ctor.pc = "find"
  /\ ctor.k > Len(kbot_actuator_ids)
  /\ ctor' = [ctor EXCEPT !.pc = "done"]
  /\ ret' = [Returned("KBotProvider::new",
                [torque_enabled |-> ctor.torque_enabled,
                 gains |-> ctor.gains],
                Ok("Self")) EXCEPT !.log = ctor.log]
  /\ UNCHANGED <<coreVars, gi, fb, bus, teleop, imu, api>>

InitStartup ==
  /\ InitRuntime
  /\ gi = GiIdle
  /\ fb = <<>>
  /\ bus = <<>>
  /\ ret = NoRet

\* The torque scales are values the command line may give
\* (bin/runtime.rs:32).
NextStartup ==
  \/ \E torque_enabled \in BOOLEAN : \E torque_scale \in {One, Half} :
       \E gains \in GainTables : \E opened \in BOOLEAN :
         CtorNew(torque_enabled, torque_scale, gains, opened)
  \/ CtorFind
  \/ \E ok \in BOOLEAN : CtorConfigure(ok)
  \/ \E ok \in BOOLEAN : CtorTorque(ok)
  \/ CtorReturn

SpecStartup == InitStartup /\ [][NextStartup]_vars

\* ========================================================== start and stop
\* An owner calls start() and stop() on one ModelRuntime in any order.
\* api[i] is the i-th task spawned: pc its position in the closure of
\* runtime.rs:79-192 and shut whether its Runtime was shut down.  History:
\* early (stop() came while it waited at a prompt or in the countdown),
\* after (what it dispatched after the shutdown) and late (what it
\* dispatched while a newer task existed).

\* runtime.rs:79-192: one step of task i.  The reads of the prompts and the
\* timer wait block the thread and come back whatever happened to the
\* Runtime; at an .await a task whose Runtime was shut down may be dropped
\* (outcome "drop"), and it is dropped at the latest in a sleep.  The number
\* of sub-steps of a tick is left open.
ApiTask(i, outcome) ==
  /\ i \in 1..Len(api)
  /\ LET t == api[i]
         noted(e) == [t EXCEPT
                        !.after = IF t.shut THEN @ \cup {e} ELSE @,
                        !.late = IF i < Len(api) THEN @ \cup {e} ELSE @]
         awaits == {"move_to_home", "countdown", "init", "step",
                    "take_action", "trigger", "sleep"}
         next ==
           CASE outcome = "drop" ->
                  IF t.shut /\ t.pc \in awaits
                    THEN {[t EXCEPT !.pc = "dropped"]} ELSE {}
             [] t.pc \in {"countdown", "sleep"} /\ t.shut -> {}
             [] t.pc = "read_home" ->
                  {[t EXCEPT !.pc = IF outcome = "ok" THEN "move_to_home"
                                    ELSE "panicked"]}
             [] t.pc = "move_to_home" ->
                  IF outcome = "ok"
                    THEN {[noted("home") EXCEPT !.pc = "read_start"]} ELSE {}
             [] t.pc = "read_start" ->
                  {[t EXCEPT !.pc = IF outcome = "ok" THEN "countdown"
                                    ELSE "panicked"]}
             [] t.pc = "countdown" ->
                  IF outcome = "ok" THEN {[t EXCEPT !.pc = "init"]} ELSE {}
             [] t.pc = "init" ->
                  {[t EXCEPT !.pc = IF outcome = "ok" THEN "while" ELSE "err"]}
             [] t.pc = "while" ->
                  IF outcome = "ok"
                    THEN {[t EXCEPT !.pc = IF running THEN "step" ELSE "ok"]}
                    ELSE {}
             [] t.pc = "step" ->
                  IF outcome = "ok"
                    THEN {[noted("step") EXCEPT !.pc = "for"]}
                    ELSE {[t EXCEPT !.pc = "err"]}
             [] t.pc = "for" ->
                  IF outcome = "ok"
                    THEN {[t EXCEPT !.pc = IF running THEN "take_action"
                                           ELSE "while"]}
                    ELSE {}
             [] t.pc = "take_action" ->
                  IF outcome = "ok"
                    THEN {[noted("command") EXCEPT !.pc = "timer_wait"]}
                    ELSE {[t EXCEPT !.pc = "err"]}
             [] t.pc = "timer_wait" ->
                  {[t EXCEPT !.pc = IF outcome = "ok" THEN "trigger" ELSE "err"]}
             [] t.pc = "trigger" ->
                  {[t EXCEPT !.pc = IF outcome = "ok" THEN "sleep" ELSE "err"]}
             [] t.pc = "sleep" ->
                  IF outcome = "ok"
                    THEN {[t EXCEPT !.pc = "for"], [t EXCEPT !.pc = "while"]}
                    ELSE {}
             [] OTHER -> {}
     IN  \E n \in next : api' = [api EXCEPT ![i] = n]
  /\ UNCHANGED <<coreVars, provVars, teleop, imu, ctor>>

\* runtime.rs:63-79 and 194-196: start() returns Ok at once while the flag
\* is set; otherwise it builds a Runtime, sets the flag and spawns a task.
ApiStart(runtime_ok) ==
  /\ running \/ Len(api) < MaxStarts
  /\ LET spawns == ~running /\ runtime_ok
     IN  /\ running' = (running \/ spawns)
         /\ runtime' = IF spawns THEN "Some" ELSE runtime
         /\ api' = IF spawns
                     THEN Append(api, [pc |-> "read_home", shut |-> FALSE,
                                       early |-> FALSE, after |-> {},
                                       late |-> {}])
                     ELSE api
         /\ ret' = Returned("start",
                      [running |-> running, spawned |-> spawns],
                      IF running \/ runtime_ok THEN Ok(<<>>) ELSE Err("io"))
  /\ UNCHANGED <<main_pc, rtFields, shut, handle, task, kbVars, issued,
                 histVars, gi, fb, bus, teleop, imu, ctor>>

\* runtime.rs:198-204: stop() clears the flag and shuts the Runtime of the
\* last task down without waiting for it.
ApiStop ==
  /\ running' = FALSE
  /\ runtime' = "None"
  /\ api' = IF runtime = "Some"
              THEN [api EXCEPT
                      ![Len(api)].shut = TRUE,
                      ![Len(api)].early =
                        api[Len(api)].pc \in
                          {"read_home", "read_start", "countdown"}]
              ELSE api
  /\ ret' = Returned("stop", [running |-> running], Ok(<<>>))
  /\ UNCHANGED <<main_pc, rtFields, shut, handle, task, kbVars, issued,
                 histVars, gi, fb, bus, teleop, imu, ctor>>

NextApi ==
  \/ \E runtime_ok \in BOOLEAN : ApiStart(runtime_ok)
  \/ ApiStop
  \/ \E i \in 1..MaxStarts : \E outcome \in {"ok", "err", "drop"} :
       ApiTask(i, outcome)

SpecApi == Init /\ [][NextApi]_vars

\* ------------------------------------------------------ reading the history
Last(seq) == seq[Len(seq)]
Count(events, from) ==
  Cardinality({j \in (from + 1)..Len(trace) : trace[j] \in events})
StepEvents == {"step", "step_err"}
DispatchEvents == {"take_action", "take_action_err"}
ErrEvents ==
  {"init_err", "timer_err", "step_err", "take_action_err", "timer_wait_err",
   "trigger_err"}
\* stop() has stored the flag of a started runtime.
FlagSet == ~running /\ task.pc # "unspawned"

\* ----------------------------------------------------------------- C1
\* Element k of a baseline; a one-element baseline is broadcast.
At(prev, k) == prev[IF Len(prev) = 1 THEN 1 ELSE k]

\* m * (prev*(1 - i/n) + target*(i/n)) for joint k, as one fraction.
Expected(prev, target, i, n, m, k) ==
  Rat(m[1] * (At(prev, k)[1] * target[k][2] * (n - i)
                + target[k][1] * At(prev, k)[2] * i),
      m[2] * n * At(prev, k)[2] * target[k][2])

\* The commands of the spec's examples: n = 4, prev = 0, target = 1.
ExampleFull == << <<1, 4>>, <<1, 2>>, <<3, 4>>, <<1, 1>> >>
ExampleHalf == << <<1, 8>>, <<1, 4>>, <<3, 8>>, <<1, 2>> >>

\* C1: in a tick with baseline prev and policy output target of the same
\* shape, the batches are dispatched in the order i = 1, 2, ..., the i-th
\* equals m * (prev*(1 - i/N) + target*(i/N)) element-wise (0.25, 0.5,
\* 0.75, 1.0 and 0.125, 0.25, 0.375, 0.5 in the examples), and a tick that
\* runs through without stop or error has dispatched exactly N batches.
C1_Interpolation ==
  /\ \A j \in 1..Len(sent) :
       LET s == sent[j]
           n == task.slowdown_factor
           m == task.magnitude_factor
       IN  /\ s.i \in 1..n
           /\ IF j = 1 \/ sent[IF j = 1 THEN 1 ELSE j - 1].tick # s.tick
                THEN s.i = 1
                ELSE s.i = sent[j - 1].i + 1
           /\ Len(s.cmd) = Len(s.target)
           /\ \A k \in 1..Len(s.cmd) :
                /\ s.cmd[k] = Expected(s.prev, s.target, s.i, n, m, k)
                /\ (n = 4 /\ At(s.prev, k) = Zero /\ s.target[k] = One) =>
                     /\ m = One => s.cmd[k] = ExampleFull[s.i]
                     /\ m = Half => s.cmd[k] = ExampleHalf[s.i]
  /\ (task.pc = "end_tick" /\ Last(trace) = "for_end") =>
       Cardinality({j \in 1..Len(sent) : sent[j].tick = ticks})
         = task.slowdown_factor

\* A second tick with N = 4 and m = 0.5 ran through, joint 1 going 0 -> 1.
C1_Witness ==
  /\ task.pc = "end_tick"
  /\ Last(trace) = "for_end"
  /\ task.slowdown_factor = 4
  /\ task.magnitude_factor = Half
  /\ ticks = 2
  /\ Last(sent).prev[1] = Zero
  /\ Last(sent).target[1] = One
  /\ Last(sent).cmd[1] = <<1, 2>>

\* ----------------------------------------------------------------- C2
\* C2: when a tick has ended, the baseline of the next tick is the raw
\* tensor the policy returned in this tick, and every batch of a later tick
\* was interpolated from the raw output of the tick before it.
C2_RawBaseline ==
  /\ (task.pc = "while" /\ Len(calls) >= 2) =>
       task.joint_positions = Last(calls).output
  /\ \A j \in 1..Len(sent) :
       sent[j].tick >= 2 => sent[j].prev = calls[sent[j].tick].output

\* A throttled tick has ended: the baseline is neither the last command
\* nor the throttled output.
C2_Witness ==
  /\ task.pc = "while"
  /\ Len(calls) >= 2
  /\ Len(sent) >= 1
  /\ Last(sent).tick = ticks
  /\ task.magnitude_factor = Half
  /\ Last(calls).output = Ramp
  /\ task.joint_positions # Last(sent).cmd
  /\ task.joint_positions # Scale(Last(calls).output, task.magnitude_factor)

\* ----------------------------------------------------------------- C3
\* C3: in every sub-step the dispatch is followed by the timer wait, the
\* timer wait by the feedback trigger and the trigger by the bus-latency
\* sleep, with nothing in between; so every policy step that follows a
\* dispatch has a completed feedback trigger between that dispatch and
\* itself.
C3_SubStepOrder ==
  /\ \A j \in 1..Len(trace) :
       /\ trace[j] \in {"timer_wait", "timer_wait_err"} =>
            j > 1 /\ trace[j - 1] = "take_action"
       /\ trace[j] \in {"trigger", "trigger_err"} =>
            j > 1 /\ trace[j - 1] = "timer_wait"
       /\ trace[j] = "sleep" => j > 1 /\ trace[j - 1] = "trigger"
       /\ j < Len(trace) =>
            /\ trace[j] = "take_action" =>
                 trace[j + 1] \in {"timer_wait", "timer_wait_err"}
            /\ trace[j] = "timer_wait" =>
                 trace[j + 1] \in {"trigger", "trigger_err", "cancelled"}
            /\ trace[j] = "trigger" => trace[j + 1] \in {"sleep", "cancelled"}
  /\ \A j \in 1..Len(trace) :
       (trace[j] \in StepEvents
          /\ \E d \in 1..(j - 1) : trace[d] = "take_action") =>
         LET d == CHOOSE x \in 1..(j - 1) :
                    /\ trace[x] = "take_action"
                    /\ \A y \in (x + 1)..(j - 1) : trace[y] # "take_action"
         IN  \E k \in (d + 1)..(j - 2) :
               trace[k] = "trigger" /\ trace[k + 1] = "sleep"

\* A policy step has followed a dispatched batch.
C3_Witness ==
  \E j \in 1..Len(trace) :
    /\ trace[j] = "step"
    /\ \E d \in 1..(j - 1) : trace[d] = "take_action"

\* ----------------------------------------------------------------- C4
\* C4: every policy step directly follows a tick check that found the flag
\* clear and every dispatch directly follows a sub-step check that found it
\* clear; once stop() has set the flag no check passes any more, so the
\* loop starts at most one further policy step and dispatches at most one
\* further batch.
C4_StopChecks ==
  /\ \A j \in 1..Len(trace) :
       /\ trace[j] \in StepEvents => j > 1 /\ trace[j - 1] = "while_true"
       /\ trace[j] \in DispatchEvents => j > 1 /\ trace[j - 1] = "for_true"
  /\ FlagSet =>
       /\ \A j \in (stop_at + 1)..Len(trace) :
            trace[j] \notin {"while_true", "for_true"}
       /\ Count(StepEvents, stop_at) <= 1
       /\ Count(DispatchEvents, stop_at) <= 1

\* The flag was set right after a tick check; one further policy step was
\* started and the loop then ended at its next check.
C4_Witness ==
  /\ FlagSet
  /\ stop_at >= 1
  /\ trace[stop_at] = "while_true"
  /\ Count({"step"}, stop_at) = 1
  /\ Last(trace) = "while_false"

\* ----------------------------------------------------------------- C5
\* The task can take no further step.
TaskOver ==
  \/ task.pc \in {"unspawned", "ok", "err", "panicked", "cancelled"}
  \/ ~ProcessAlive

\* C5: when stop() is called right after a sub-step passed its stop-flag
\* check and nothing fails afterwards, the dispatch, the timer wait and the
\* feedback trigger of that sub-step have all taken place by the time the
\* task is over.
C5_IterationCompletes ==
  (/\ TaskOver
   /\ FlagSet
   /\ stop_at >= 1
   /\ trace[stop_at] = "for_true"
   /\ Count(ErrEvents \cup {"panic"}, stop_at) = 0) =>
    /\ Count({"take_action"}, stop_at) = 1
    /\ Count({"timer_wait"}, stop_at) = 1
    /\ Count({"trigger"}, stop_at) = 1

\* ----------------------------------------------------------------- C6
\* runtime.rs:79-138: the events of a startup that runs through.
Startup(kb) ==
  <<"read_home", "move_to_home", "read_start">>
    \o (IF kb THEN <<"start_keyboard_listener_now">> ELSE <<>>)
    \o [c \in 1..CountdownSteps |-> "countdown"]
    \o <<"init", "get_state", "timer">>

LoopEvents ==
  {"while_true", "while_false", "step", "step_err", "for_true", "for_break",
   "for_end", "take_action", "take_action_err", "timer_wait",
   "timer_wait_err", "trigger", "trigger_err", "sleep", "end_tick"}

\* C6: the task's events follow the startup sequence homing, confirmation,
\* teleop listener (only when enabled), countdown, carry initialisation,
\* baseline capture, timer, one after the other; the listener is started
\* only after the confirmation and only when teleop is enabled; the carry
\* exists only after the whole countdown; no event of the main loop, no
\* policy step and no dispatch happens before the startup is complete.
C6_SequentialStartup ==
  LET S == Startup(task.keyboard_enabled)
      done == Len(trace) >= Len(S) /\ SubSeq(trace, 1, Len(S)) = S
  IN  /\ \A j \in 1..Len(trace) :
           j <= Len(S) =>
             \/ trace[j] = S[j]
             \/ /\ j = Len(trace)
                /\ trace[j] \in {"panic", "init_err", "timer_err", "cancelled"}
      /\ (listener # "none" \/ KEYBOARD_RUNNING) =>
           /\ task.keyboard_enabled
           /\ Len(trace) >= 4
           /\ trace[3] = "read_start"
      /\ Len(calls) >= 1 =>
           /\ Count({"countdown"}, 0) = CountdownSteps
           /\ calls[1].call = "init"
      /\ (\/ Len(sent) >= 1
          \/ Len(calls) >= 2
          \/ ticks >= 1
          \/ \E j \in 1..Len(trace) : trace[j] \in LoopEvents) => done

\* A startup with teleop ran through and the loop has dispatched a batch.
C6_Witness ==
  /\ task.keyboard_enabled
  /\ listener # "none"
  /\ Len(sent) >= 1
  /\ Len(calls) >= 2

\* ----------------------------------------------------------------- C7
\* C7: after the baseline capture the baseline has one entry per joint and
\* each entry is the live position of that joint's actuator.
C7_LiveBaseline ==
  task.pc = "timer" =>
    /\ Len(task.joint_positions) = NumJoints
    /\ \A k \in 1..NumJoints :
         /\ actuator_ids[k] \in DOMAIN live
         /\ task.joint_positions[k] = ToDegrees(live[actuator_ids[k]].angle)

\* ----------------------------------------------------------------- C8
LoopErrEvents ==
  {"step_err", "take_action_err", "timer_wait_err", "trigger_err"}

\* C8: a failed policy step, dispatch, timer wait or feedback trigger is the
\* last thing the task does: it has ended with the error, nothing is
\* retried or dispatched after it, and every batch dispatched before the
\* failure stays dispatched.
C8_FatalErrors ==
  /\ \A j \in 1..Len(trace) :
       trace[j] \in LoopErrEvents => j = Len(trace) /\ task.pc = "err"
  /\ (task.pc = "err" /\ Len(calls) >= 2) => Last(trace) \in LoopErrEvents
  /\ Count({"take_action"}, 0) = Len(sent)

\* The feedback trigger failed in the second sub-step of a tick, after one
\* batch of that tick had been dispatched completely.
C8_Witness ==
  /\ task.pc = "err"
  /\ Last(trace) = "trigger_err"
  /\ Len(sent) >= 2
  /\ Last(sent).tick = ticks
  /\ Last(sent).i = 2

\* ----------------------------------------------------------------- C9
\* C9: when the task has ended with an error, its owner can tell: it holds
\* the task's join handle or finds the running flag cleared.
C9_ErrorReported ==
  task.pc = "err" => (handle = "held" \/ ~running)

\* ---------------------------------------------------------------- C10
\* C10: every policy step is given the carry the call before it returned
\* (init for the first step), every carry is given to at most one step, and
\* the carry the task holds is the one returned last.
C10_CarryThreading ==
  /\ \A j \in 1..Len(calls) :
       IF j = 1
         THEN calls[j].call = "init" /\ calls[j].in = NoCarry
         ELSE /\ calls[j].call = "step"
              /\ calls[j].in # NoCarry
              /\ calls[j].in = calls[j - 1].out
  /\ \A a, b \in 2..Len(calls) : a # b => calls[a].in # calls[b].in
  /\ task.carry # NoCarry => task.carry = Last(calls).out

\* Two policy steps have run after init.
C10_Witness ==
  /\ Len(calls) >= 3
  /\ calls[3].out # NoCarry

\* ---------------------------------------------------------------- C11
\* A ModelRuntime exists: the constructor has returned.
Constructed == main_pc \notin {"new", "panicked"} \/ dt # 0

\* C11: every constructed runtime, and so every runtime that is started,
\* has a tick period above the 2 ms offset, slowdown_factor >= 1 and
\* 0 <= magnitude_factor <= 1; a constructor or setter call that panics on
\* its assertion leaves every stored field as it was.
C11_ConfigRanges ==
  /\ [](Constructed =>
          /\ dt > TRIGGER_READ_BEFORE
          /\ slowdown_factor >= 1
          /\ RLe(Zero, magnitude_factor)
          /\ RLe(magnitude_factor, One))
  /\ [](task.pc # "unspawned" =>
          /\ task.slowdown_factor >= 1
          /\ RLe(Zero, task.magnitude_factor)
          /\ RLe(task.magnitude_factor, One))
  /\ [][main_pc' = "panicked" => UNCHANGED rtFields]_vars

\* set_magnitude_factor rejected 1.5 after set_slowdown_factor stored 4.
C11_Witness ==
  /\ main_pc = "panicked"
  /\ dt = 20
  /\ slowdown_factor = 4
  /\ magnitude_factor = One

\* ---------------------------------------------------------------- C12
\* The operations of one kind handed to the bus or the IMU so far.
Ops(op) == Cardinality({j \in 1..Len(bus) : bus[j].op = op})

\* C12 as stated: a get_inputs call that has returned has issued exactly
\* one actuator-state batch read and exactly one IMU read.
C12_ExactlyOneEach ==
  ret.fn = "get_inputs" =>
    /\ Ops("get_actuators_state") = 1
    /\ Ops("imu.get_values") = 1

\* C12: a get_inputs call issues at most one actuator-state batch read and
\* at most one IMU read, whatever fields are requested; once it has
\* returned it has issued exactly one of each if every joint name of the
\* metadata resolves, and none at all if a joint name is unknown.
C12_OneReadEach ==
  /\ Ops("get_actuators_state") <= 1
  /\ Ops("imu.get_values") <= 1
  /\ ret.fn = "get_inputs" =>
       IF get_actuator_ids(ret.args.joint_names)[1] = "Ok"
         THEN Ops("get_actuators_state") = 1 /\ Ops("imu.get_values") = 1
         ELSE Ops("get_actuators_state") = 0 /\ Ops("imu.get_values") = 0

\* A call for nine fields has returned its map after one read of each kind.
C12_Witness ==
  /\ ret.fn = "get_inputs"
  /\ ret.value[1] = "Ok"
  /\ Len(ret.args.input_types) = 9
  /\ Ops("get_actuators_state") = 1
  /\ Ops("imu.get_values") = 1

\* ---------------------------------------------------------------- C13
SensorFields ==
  {"JointAngles", "JointAngularVelocities", "Accelerometer", "Quaternion",
   "Gyroscope", "ProjectedGravity"}

FindName(id) ==
  LET hits == {k \in 1..Len(ACTUATOR_NAME_TO_ID) :
                 ACTUATOR_NAME_TO_ID[k][2] = id}
  IN  IF hits = {} THEN None ELSE Some(ACTUATOR_NAME_TO_ID[Min(hits)][1])

HasUnknownName(joint_names) ==
  \E k \in 1..Len(joint_names) :
    \A r \in 1..Len(ACTUATOR_NAME_TO_ID) :
      ACTUATOR_NAME_TO_ID[r][1] # joint_names[k]

\* C14: every row of the name/id table resolves from its name to its id
\* and from that id back to its name; a get_inputs or take_action call
\* given a name the table does not hold returns an error, and no id was
\* handed to the bus for it.
C14_NameTable ==
  /\ \A r \in 1..Len(ACTUATOR_NAME_TO_ID) :
       /\ FindId(ACTUATOR_NAME_TO_ID[r][1]) = Some(ACTUATOR_NAME_TO_ID[r][2])
       /\ FindName(ACTUATOR_NAME_TO_ID[r][2]) =
            Some(ACTUATOR_NAME_TO_ID[r][1])
  /\ FindId(UnknownName) = None
  /\ (gi.pc # "idle" /\ HasUnknownName(gi.joint_names)) =>
       gi.actuator_ids = <<>> /\ bus = <<>>
  /\ (/\ ret.fn \in {"get_inputs", "take_action"}
      /\ HasUnknownName(ret.args.joint_names)
      /\ ret.value[1] # "Panic") =>
       /\ ret.value[1] = "Err"
       /\ bus = <<>>

\* take_action was given one known and one unknown name and failed.
C14_Witness ==
  /\ ret.fn = "take_action"
  /\ ret.value[1] = "Err"
  /\ ret.args.joint_names[1] = ACTUATOR_NAME_TO_ID[1][1]
  /\ HasUnknownName(ret.args.joint_names)
  /\ bus = <<>>

\* ---------------------------------------------------------------- C15
Resolves(name) == FindId(name)[1] = "Some"

\* C15: a take_action call fails on name resolution only if none of its
\* joint names resolves; if at least one resolves, a position command has
\* been written for every joint whose name resolves.
C15_PartialBatch ==
  (ret.fn = "take_action" /\ ret.value[1] # "Panic") =>
    LET names == ret.args.joint_names
        some == \E k \in 1..Len(names) : Resolves(names[k])
    IN  /\ ret.value[1] = "Err" => ~some
        /\ some =>
             \A k \in 1..Len(names) :
               Resolves(names[k]) =>
                 \E j \in 1..Len(bus) :
                   /\ bus[j].op = "command"
                   /\ bus[j].motor_id = FindId(names[k])[2]

\* ---------------------------------------------------------------- C16
\* C16: a command_actuators call returns Ok with one result per command,
\* in command order and with the command's actuator id; every command was
\* written to the bus, also after a failed write, and a result has
\* success = false exactly when the write of its command failed.
C16_BatchIsolation ==
  ret.fn = "command_actuators" =>
    LET commands == ret.args.commands
    IN  /\ ret.value[1] = "Ok"
        /\ Len(ret.value[2]) = Len(commands)
        /\ Len(bus) = Len(commands)
        /\ \A k \in 1..Len(commands) :
             /\ ret.value[2][k].actuator_id = commands[k].actuator_id
             /\ bus[k].op = "command"
             /\ bus[k].motor_id = commands[k].actuator_id
             /\ bus[k].ok = (k \notin ret.args.failing)
             /\ ret.value[2][k].success = bus[k].ok

\* Of a batch of three commands the write of the second failed.
C16_Witness ==
  /\ ret.fn = "command_actuators"
  /\ Len(ret.args.commands) = 3
  /\ ret.args.failing = {2}
  /\ Len(ret.value[2]) = 3
  /\ ret.value[2][1].success
  /\ ~ret.value[2][2].success
  /\ ret.value[2][3].success
  /\ bus[3].ok

\* ---------------------------------------------------------------- C17
\* C17: once take_action has returned, every failed write of its batch is
\* on record: in the value returned or in what the call logged.
C17_FailuresRecorded ==
  ret.fn = "take_action" =>
    \A j \in 1..Len(bus) :
      (bus[j].op = "command" /\ ~bus[j].ok) =>
        \/ \E r \in 1..Len(ret.log) : ret.log[r].actuator_id = bus[j].motor_id
        \/ /\ ret.value[1] = "Ok"
           /\ \E r \in 1..Len(ret.value[2]) :
                /\ ret.value[2][r].actuator_id = bus[j].motor_id
                /\ ~ret.value[2][r].success

\* ---------------------------------------------------------------- C18
\* The convergence threshold of homing, 0.1 rad, and its largest step, 4
\* degrees.
HomeThreshold == Rat(1, 10)
HomeMaxStep == ToRadians(Rat(4, 1))

RAbs(x) == Rat(Abs(x[1]), x[2])
RLt(a, b) == a[1] * b[2] < b[1] * a[2]

\* C18: when move_to_home has returned, every home-configured joint has
\* feedback and its measured angle is within the threshold of its home
\* angle.
C18_HomeConverged ==
  ret.fn = "move_to_home" =>
    \A k \in 1..Len(HOME_POSITION) :
      /\ HOME_POSITION[k][1] \in DOMAIN fb
      /\ RLt(RAbs(RSub(fb[HOME_POSITION[k][1]].angle, HOME_POSITION[k][2])),
             HomeThreshold)

\* ---------------------------------------------------------------- C19
\* C19: every command move_to_home has written for a joint with feedback
\* lies within the largest step of that joint's measured angle.
C19_ClampedStep ==
  ret.fn = "move_to_home" =>
    \A j \in 1..Len(bus) :
      (bus[j].op = "command" /\ bus[j].motor_id \in DOMAIN fb) =>
        RLe(RAbs(RSub(bus[j].position, fb[bus[j].motor_id].angle)),
            HomeMaxStep)

\* ---------------------------------------------------------------- C20
JointFields == {"JointAngles", "JointAngularVelocities"}

\* The joint slot a get_inputs call gets to: all names resolve, both reads
\* succeed and the slots requested before it are filled.
Requested(t) ==
  \E j \in 1..Len(ret.args.input_types) :
    /\ ret.args.input_types[j] = t
    /\ \A h \in 1..(j - 1) : ret.args.input_types[h] \in DOMAIN gi.out

\* An actuator state without position and velocity.
BlankState(id) == [actuator_id |-> id, position |-> None, velocity |-> None]

\* C20: a joint array that get_inputs returns has one entry per policy
\* joint and entry k is the measured value of joint k; when a requested
\* joint slot is reached and a policy joint has no state entry the call
\* returns an error and no map; a state entry without position or
\* velocity makes the slot an error as well.
C20_NoSubstitution ==
  /\ (ret.fn = "get_inputs" /\ ret.value[1] = "Ok") =>
       \A t \in DOMAIN ret.value[2] \cap JointFields :
         /\ Len(ret.value[2][t]) = Len(gi.joint_names)
         /\ \A k \in 1..Len(gi.joint_names) :
              LET id == FindId(gi.joint_names[k])[2]
              IN  /\ id \in DOMAIN fb
                  /\ ret.value[2][t][k] =
                       ToDegrees(IF t = "JointAngles" THEN fb[id].angle
                                 ELSE fb[id].velocity)
  /\ (/\ ret.fn = "get_inputs"
      /\ gi.act = "ok"
      /\ gi.imu = "ok"
      /\ \E t \in JointFields : Requested(t)
      /\ \E k \in 1..Len(gi.actuator_ids) :
           gi.actuator_ids[k] \notin DOMAIN fb) =>
       ret.value[1] = "Err"
  /\ \A k \in 1..NumJoints :
       LET states == [j \in 1..NumJoints |->
                        IF j = k THEN BlankState(actuator_ids[j])
                        ELSE [actuator_id |-> actuator_ids[j],
                              position |-> Some(One), velocity |-> Some(One)]]
       IN  /\ get_joint_angles_from_state(JointNames, states)[1] = "Err"
           /\ get_joint_angular_velocities_from_state(JointNames, states)[1]
                = "Err"

\* Joint angles were requested while the last policy joint had no
\* feedback: the call returned the shape error.
C20_Witness ==
  /\ ret.fn = "get_inputs"
  /\ ret.args.input_types = <<"JointAngles">>
  /\ ret.args.joint_names = JointNames
  /\ DOMAIN fb = {actuator_ids[1]}
  /\ ret.value = Err("ShapeError")

\* ---------------------------------------------------------------- C22
\* The teleop scalars by name, as statics with distinct values.
NamedStatics ==
  [COMMAND_X |-> to_bits(Rat(1, 10)), COMMAND_Y |-> to_bits(Rat(1, 5)),
   COMMAND_YAW_RATE |-> to_bits(Rat(-1, 10)),
   COMMAND_YAW |-> to_bits(Rat(-1, 5)), COMMAND_HEIGHT |-> to_bits(Rat(6, 1)),
   COMMAND_ROLL |-> to_bits(Rat(7, 1)), COMMAND_PITCH |-> to_bits(Rat(8, 1)),
   KEYFRAME_INDEX |-> to_bits(Rat(9, 1))]

\* The documented order of a Command input of width n over the vector c
\* of get_commands: 1 x-vel, 2 y-vel, 3 yaw-rate, 4 yaw, 5 height, 6 roll,
\* 7 pitch.
Documented(n, c) ==
  CASE n = 3 -> <<c[1], c[2], c[3]>>
    [] n = 6 -> <<c[1], c[2], c[4], c[5], c[6], c[7]>>
    [] n = 7 -> <<c[1], c[2], c[3], c[4], c[5], c[6], c[7]>>
    [] OTHER -> [i \in 1..n |-> Zero]

\* C22: a Command input that get_inputs returns has the declared width,
\* and for the widths 3, 6 and 7 it holds the teleop scalars in the
\* documented order; get_commands puts each named scalar at its position.
C22_CommandWidth ==
  /\ (/\ ret.fn = "get_inputs"
      /\ ret.value[1] = "Ok"
      /\ "Command" \in DOMAIN ret.value[2]) =>
       LET n == UnwrapOr(gi.num_commands, 0)
           c == ret.value[2]["Command"]
       IN  /\ Len(c) = n
           /\ \E v \in TeleopVectors : c = Documented(n, v)
  /\ get_commands(NamedStatics) =
       << Rat(1, 10), Rat(1, 5), Rat(-1, 10), Rat(-1, 5), Rat(6, 1), Rat(7, 1),
          Rat(8, 1), Rat(9, 1) >>
  /\ get_command_internal(Some(6), get_commands(NamedStatics))[2] =
       << Rat(1, 10), Rat(1, 5), Rat(-1, 5), Rat(6, 1), Rat(7, 1), Rat(8, 1) >>

\* A returned Command input of width 6 over a vector with distinct scalars.
C22_Witness ==
  /\ ret.fn = "get_inputs"
  /\ ret.value[1] = "Ok"
  /\ "Command" \in DOMAIN ret.value[2]
  /\ gi.num_commands = Some(6)
  /\ ret.value[2]["Command"] =
       <<Rat(1, 1), Rat(2, 1), Rat(4, 1), Rat(5, 1), Rat(6, 1), Rat(7, 1)>>

\* ---------------------------------------------------------------- C23
\* C23: at any moment each scalar decodes to the value last stored to its
\* index (a store to one index, or to an index outside 0..7, leaves the
\* others as they were), and a get_commands that has returned holds, for
\* every index not written while it ran, the value last stored to it.
C23_NewestWriteWins ==
  /\ \A i \in 0..7 : get_commands(teleop.cmd)[i + 1] = teleop.written[i]
  /\ teleop.gc.pc = "done" =>
       \A i \in (0..7) \ teleop.gc.dirty :
         teleop.gc.out[i + 1] = teleop.written[i]

\* get_commands ran after the pitch and the x velocity were set and read
\* both.
C23_Witness ==
  /\ teleop.gc.pc = "done"
  /\ teleop.gc.dirty = {}
  /\ teleop.written[6] = Rat(1, 10)
  /\ teleop.written[0] = Rat(1, 5)
  /\ teleop.gc.out[7] = Rat(1, 10)
  /\ teleop.gc.out[1] = Rat(1, 5)

\* ---------------------------------------------------------------- C24
\* C24: before the listener has handled a key event (and before any store
\* to the statics) get_commands returns eight zeros and the shutdown flag
\* is false.
C24_ZeroAtStartup ==
  (teleop.keys = 0 /\ ~(listener = "ended" /\ ~KEYBOARD_RUNNING)) =>
    /\ ~SHUTDOWN_REQUESTED
    /\ teleop.gc.pc = "done" => teleop.gc.out = [k \in 1..8 |-> Zero]
    /\ get_commands(teleop.cmd) = [k \in 1..8 |-> Zero]

\* get_commands has returned before any key event.
C24_Witness ==
  /\ teleop.keys = 0
  /\ listener = "reading"
  /\ teleop.gc.pc = "done"

\* ---------------------------------------------------------------- C21
\* The reader has nothing to offer: no frame was ever copied in full, or
\* the reader has given up.
ImuUnreadable(seen) == seen.stored = None \/ seen.reader = "stopped"

\* C21: a get_inputs call whose IMU read found the IMU unreadable returns
\* an error.
C21_ImuFailureFatal ==
  (/\ ret.fn = "get_inputs"
   /\ gi.imu = "ok"
   /\ imu.seen # None
   /\ ImuUnreadable(imu.seen[2])) =>
    ret.value[1] = "Err"

\* ---------------------------------------------------------------- C29
\* All components of a sample are of one frame, or all are the default.
OneFrame(v) ==
  \/ v = ImuDefault
  \/ \E r \in HwResults :
       /\ r[1] = "Ok"
       /\ \A c \in {"accelerometer", "gyroscope", "euler", "quaternion"} :
            r[2][c][1] = "Some"
       /\ v = ImuStore(r[2])

\* C29: every sample get_values returns and every sample get_inputs works
\* on is of one frame; whenever the write lock is free the stored sample is
\* the last frame that had all its components (the default before the
\* first), so a frame lacking a component has changed nothing.
C29_AtomicSample ==
  /\ ret.fn = "IMU::get_values" => OneFrame(ret.value[2])
  /\ (ImuAlive /\ gi.imu = "ok") =>
       \E v \in {ImuDefault} \cup
                 {ImuStore(HwSample(t)) : t \in 1..2} :
         gi.imu_values = IMUData(v)
  /\ (ImuAlive /\ imu.lock = "free") =>
       imu.data = IF imu.stored = None THEN ImuDefault
                  ELSE ImuStore(imu.stored[2])

\* A frame without gyroscope was read after frame 2 was stored, and
\* get_values then returned frame 2.
C29_Witness ==
  /\ ret.fn = "IMU::get_values"
  /\ ret.value[2] = ImuStore(HwSample(2))
  /\ imu.hw = Some([HwSample(1) EXCEPT !.gyroscope = None])
  /\ imu.pc = "get_data"

\* ---------------------------------------------------------------- C25
\* C25: once the listener has processed an ESC press the shutdown flag is
\* set and never cleared, the listener has left its loop for good, and the
\* main task eventually exits, having called stop() on the way.
C25_EscShutsDown ==
  /\ [][ListenerEsc => SHUTDOWN_REQUESTED']_vars
  /\ [][SHUTDOWN_REQUESTED => SHUTDOWN_REQUESTED']_vars
  /\ [](SHUTDOWN_REQUESTED => (listener = "ended" /\ keyboard_enabled))
  /\ [](SHUTDOWN_REQUESTED /\ main_pc = "exited" =>
         (~running /\ runtime = "None" /\ shut))
  /\ SHUTDOWN_REQUESTED ~> (main_pc = "exited")

\* ESC was processed while the control loop was running, and main has
\* stopped the runtime and exited.
C25_Witness ==
  /\ SHUTDOWN_REQUESTED
  /\ main_pc = "exited"
  /\ listener = "ended"
  /\ shut
  /\ ticks > 0

CtorOps(id, op) ==
  {j \in 1..Len(ctor.ops) :
     ctor.ops[j].motor_id = id /\ ctor.ops[j].op = op}

\* C27: the gains and limits are written once at most per actuator, and
\* torque is enabled on an actuator only after its configuration has been
\* applied.
C27_ConfiguredBeforeEnabled ==
  ctor.pc \notin {"none", "failed"} =>
    \A k \in 1..Len(kbot_actuator_ids) :
      LET id == kbot_actuator_ids[k]
      IN  /\ Cardinality(CtorOps(id, "configure")) <= 1
          /\ \A e \in CtorOps(id, "enable") :
               \E c \in CtorOps(id, "configure") :
                 c < e /\ ctor.ops[c].ok

TableIds(table) == {table[k][1] : k \in 1..Len(table)}
RowsOf(table, id) == {k \in 1..Len(table) : table[k][1] = id}

\* The 20 actuator ids of the robot.
RobotIds ==
  UNION {{limb * 10 + joint : joint \in 1..5} : limb \in 1..4}

\* The ids of a table are the robot's, each in one row.
EachOnce(table) ==
  /\ TableIds(table) = RobotIds
  /\ \A id \in RobotIds : Cardinality(RowsOf(table, id)) = 1

\* C30: the name/id table, the gain table, the home table and the bus
\* configuration hold the 20 robot ids once each; every configured
\* actuator has a gain row, and a finished move_to_home has written one
\* command to every joint of the name/id table.
C30_TablesAgree ==
  /\ EachOnce([k \in 1..Len(ACTUATOR_NAME_TO_ID) |->
                <<ACTUATOR_NAME_TO_ID[k][2]>>])
  /\ EachOnce(ACTUATOR_KP_KD)
  /\ EachOnce(HOME_POSITION)
  /\ EachOnce([k \in 1..Len(create_kbot_actuators) |->
                <<create_kbot_actuators[k]>>])
  /\ \A k \in 1..Len(create_kbot_actuators) :
       FindRow(ACTUATOR_KP_KD, create_kbot_actuators[k]) # None
  /\ ret.fn = "move_to_home" =>
       \A k \in 1..Len(ACTUATOR_NAME_TO_ID) :
         Cardinality({j \in 1..Len(bus) :
                       /\ bus[j].op = "command"
                       /\ bus[j].motor_id = ACTUATOR_NAME_TO_ID[k][2]}) = 1

\* move_to_home has returned after 20 writes.
C30_Witness ==
  /\ ret.fn = "move_to_home"
  /\ Len(bus) = Len(ACTUATOR_NAME_TO_ID)
  /\ \A k \in 1..Len(create_kbot_actuators) :
       \E j \in 1..Len(bus) : bus[j].motor_id = create_kbot_actuators[k]

\* ---------------------------------------------------------------- C31
\* C31: the projected-gravity slot computed from a sample with the
\* identity quaternion is (0, 0, -9.81).
C31_IdentityGravity ==
  (/\ gi.pc \in {"fields", "ok"}
   /\ "ProjectedGravity" \in DOMAIN gi.out
   /\ gi.imu_values.quat = <<One, Zero, Zero, Zero>>) =>
    gi.out["ProjectedGravity"] = <<Zero, Zero, Rat(-981, 100)>>

\* get_inputs has returned the slot for an upright sample.
C31_Witness ==
  /\ ret.fn = "get_inputs"
  /\ ret.value[1] = "Ok"
  /\ "ProjectedGravity" \in DOMAIN ret.value[2]
  /\ gi.imu_values.quat = <<One, Zero, Zero, Zero>>
  /\ ret.value[2]["ProjectedGravity"] = <<Zero, Zero, Rat(-981, 100)>>

\* ---------------------------------------------------------------- C32
\* The tasks that have not ended.
ApiLive == {i \in 1..Len(api) :
             api[i].pc \notin {"ok", "err", "panicked", "dropped"}}

\* C32: at most one task is live; start() with the flag set spawns
\* nothing and returns Ok; no task dispatches a command once a newer task
\* exists.
C32_OneLiveTask ==
  /\ Cardinality(ApiLive) <= 1
  /\ (ret.fn = "start" /\ ret.args.running) =>
       (~ret.args.spawned /\ ret.value[1] = "Ok")
  /\ \A i \in 1..Len(api) : api[i].late \cap {"home", "command"} = {}

\* ---------------------------------------------------------------- C33
\* C33: while the running flag is set the task spawned last has not ended.
C33_RunningMeansAlive ==
  running => (Len(api) > 0 /\ Len(api) \in ApiLive)

\* ---------------------------------------------------------------- C34
\* C34: a task whose stop() came while it waited at a prompt or in the
\* countdown dispatches nothing after it.
C34_NoDispatchAfterEarlyStop ==
  \A i \in 1..Len(api) : api[i].early => api[i].after = {}

\* C35: once cleanup_keyboard has returned the listener stores nothing more
\* to the teleop statics or to the shutdown flag, whatever keys arrive; and
\* is_keyboard_running() is true only while a listener thread is handling
\* key events.
C35_CleanupSilencesListener ==
  /\ [][teleop.cleaned => ~(ListenerStore \/ ListenerEsc)]_vars
  /\ [](KEYBOARD_RUNNING => listener = "reading")

\* C36: the vector get_commands returns is the teleop vector as it was
\* between two key events: it never holds some of the scalars one key event
\* wrote next to the old value of another scalar the same event wrote.
C36_ConsistentSnapshot ==
  teleop.gc.pc = "done" => teleop.gc.out \in teleop.gc.snaps

\* C37: for a declared width other than 3, 6 and 7 (8 among them, and an
\* undeclared width taken as 0) the Command input is the all-zero array of
\* that width, whatever the teleop vector holds.
C37_OtherWidthsZero ==
  /\ (/\ ret.fn = "get_inputs"
      /\ ret.value[1] = "Ok"
      /\ "Command" \in DOMAIN ret.value[2]
      /\ UnwrapOr(gi.num_commands, 0) \notin {3, 6, 7}) =>
       ret.value[2]["Command"] =
         [i \in 1..UnwrapOr(gi.num_commands, 0) |-> Zero]
  /\ \A v \in TeleopVectors :
       \A w \in {None} \cup {Some(n) : n \in (0..10) \ {3, 6, 7}} :
         get_command_internal(w, v) = Ok([i \in 1..UnwrapOr(w, 0) |-> Zero])

\* A returned Command input of the declared width 8.
C37_Witness ==
  /\ ret.fn = "get_inputs"
  /\ ret.value[1] = "Ok"
  /\ gi.num_commands = Some(8)
  /\ "Command" \in DOMAIN ret.value[2]
  /\ ret.value[2]["Command"] = [i \in 1..8 |-> Zero]

\* C38: command_actuators_slowed with a delay above zero, at least one step
\* and the same ids in both batches dispatches exactly num_steps batches,
\* the first the start commands and the last the end commands, and returns
\* the results of the last batch; with a zero delay, zero steps or differing
\* ids it returns an error and dispatches nothing.
C38_SlowedDispatch ==
  ret.fn = "command_actuators_slowed" =>
    LET a == ret.args
        Ids(cs) == {cs[k].actuator_id : k \in 1..Len(cs)}
        Cmds(cs) == {cs[k] : k \in 1..Len(cs)}
    IN  IF a.total_delay > 0 /\ a.num_steps >= 1
           /\ Ids(a.start_commands) = Ids(a.end_commands)
          THEN /\ Len(ret.log) = a.num_steps
               /\ Len(bus) = a.num_steps * Len(a.start_commands)
               /\ Cmds(ret.log[1]) = Cmds(a.start_commands)
               /\ Cmds(ret.log[a.num_steps]) = Cmds(a.end_commands)
               /\ ret.value =
                    command_actuators(ret.log[a.num_steps], a.failing).value
          ELSE /\ ret.value[1] = "Err"
               /\ ret.log = <<>>
               /\ bus = <<>>

\* C39: the IMU reader stops only after more than 100 failed hardware
\* reads in a row: it stops with a count above 100, and the handling of every
\* frame the hardware returned ends with the count at zero; once the reader
\* has stopped get_values returns the stored sample without an error.
C39_ReaderStopsAfterFailures ==
  /\ [](imu.pc = "stopped" => imu.read_errors > ImuMaxErrors)
  /\ [][(imu.pc \in {"check", "assign"} /\ imu'.pc \in {"get_data", "sleep"})
         => imu'.read_errors = 0]_vars
  /\ []((ret.fn = "IMU::get_values" /\ imu.seen[2].reader = "stopped") =>
         ret.value = Ok(imu.data))

\* C40: when the first policy output is about to be interpolated with the
\* initial baseline, the baseline has the length of the output and entry k
\* is the measured position of the joint entry k of the output commands,
\* also when an actuator gave no feedback at startup.
C40_BaselineMatchesOutput ==
  (task.pc = "for" /\ ticks = 1 /\ task.i = 1) =>
    /\ Len(task.joint_positions) = Len(task.output)
    /\ \A k \in 1..Len(task.output) :
         /\ actuator_ids[k] \in DOMAIN live
         /\ k <= Len(task.joint_positions)
         /\ task.joint_positions[k] = ToDegrees(live[actuator_ids[k]].angle)

====
